---- MODULE Spec2Model ----
(***************************************************************************)
(* veracode-dev-count: contributor aggregation and classification.         *)
(*                                                                         *)
(* JavaScript strings that the code cuts, joins or matches (names, emails, *)
(* regex sources, identity keys) are sequences of one-character strings,   *)
(* so that `${name}:${email}`, toLowerCase, String.replace and RegExp.test *)
(* are computed and not assumed.  The value undefined (a missing JSON      *)
(* field) is the one-element sequence Undefined.                           *)
(***************************************************************************)
EXTENDS Integers, Sequences, FiniteSets, TLC

VARIABLES
    regexPatterns,          \* EvaluationService.regexPatterns: key -> [has, list]
    pendingLoads,           \* loadRegexFromFile calls whose fs.readFile has not resolved
    summary,                \* EvaluationService.summary
    ev,                     \* the evaluateContributors call in progress (its locals)
    evaluation,             \* the caller's copy of the last value evaluateContributors returned
    calls,                  \* number of calls made on the EvaluationService by its caller
    fsCommits,              \* contributors/<system>/<repo>/commits.json
    fsSummary,              \* contributors/scm_summary.xlsx
    fsRepoList,             \* contributors/repositories-<system>.xlsx
    pc,                     \* main: the await it is suspended at
    mode,                   \* main: the answer of CLI.getInitialMode
    systems,                \* main: systems (CISystemInfo[]), each with its client's includedRepos
    cur,                    \* main: the system of the loop iteration in progress
    sysIdx,                 \* main: index of the phase-2 loop over systems
    includedRepos,          \* main: includedRepos of the phase-2 iteration
    fetchIdx,               \* main: index of the fetch loop over includedRepos
    apiCalls,               \* requests the platform servers have received
    x_ciSystem,             \* extractContributors: argument ciSystem
    x_commits,              \* extractContributors: argument commits
    x_i,                    \* extractContributors: records visited by forEach
    contributorMap,         \* extractContributors: local contributorMap
    removedContributorMap,  \* extractContributors: local removedContributorMap
    x_pc,                   \* extractContributors: "idle" | "running" | "returned" | "threw"
    azure,                  \* AzureDevOpsSystem.getContributors: the call in progress
    storage,                \* StorageService.storeCommits: the call in progress
    request,                \* fetchGitLab / fetchAzureDevOps: the call in progress
    errors                  \* main: repositories of the fetch loop whose iteration was caught

vars == <<regexPatterns, pendingLoads, summary, ev, evaluation, calls, fsCommits, fsSummary,
          fsRepoList, pc, mode, systems, cur, sysIdx, includedRepos, fetchIdx, apiCalls,
          x_ciSystem, x_commits, x_i, contributorMap, removedContributorMap, x_pc,
          azure, storage, request, errors>>

svcVars == <<regexPatterns, pendingLoads, summary, ev, evaluation, calls, fsCommits, fsSummary>>
mainVars == <<fsRepoList, pc, mode, systems, cur, sysIdx, includedRepos, fetchIdx, apiCalls>>
extractVars == <<x_ciSystem, x_commits, x_i, contributorMap, removedContributorMap, x_pc>>
clientVars == <<azure, storage, request, errors>>

-----------------------------------------------------------------------------
(* Bounds of the model *)

MaxCommits == 3

\* calls a caller makes on one EvaluationService
MaxCalls == 3

\* CI systems the user adds in phase 1
MaxSystems == 2

-----------------------------------------------------------------------------
(* Strings *)

Undefined == <<"undefined">>

\* JavaScript truthiness of a string-or-undefined value: undefined and '' are falsy.
Truthy(v) == v # Undefined /\ v # <<>>

LowerChar(c) ==
    CASE c = "A" -> "a"
      [] c = "B" -> "b"
      [] c = "M" -> "m"
      [] c = "U" -> "u"
      [] OTHER -> c

\* String.prototype.toLowerCase on a character sequence.
toLowerCase(s) == [i \in 1..Len(s) |-> LowerChar(s[i])]

\* String.prototype.toLowerCase on the platform names the program handles.
tagToLowerCase(t) ==
    CASE t = "GitHub" -> "github"
      [] t = "GitLab" -> "gitlab"
      [] t = "AzureDevOps" -> "azuredevops"
      [] t = "Azure-DevOps" -> "azure-devops"
      [] t = "Bitbucket" -> "bitbucket"
      [] OTHER -> t

\* Keys the regexPatterns map may hold.
PatternKeys == {"github", "gitlab", "azuredevops", "azure-devops", "bitbucket"}

-----------------------------------------------------------------------------
(* Regular expressions: the fragment ^? literal* $?  compiled with flag i *)

LowerLetters == {"a", "b", "c", "d", "g", "i", "m", "u", "v", "w"}

\* pattern.replace(/^\/|\/[a-z]*$/g, ''): drop a leading slash, then the first
\* slash that is followed by lower-case letters only up to the end.
stripDelimiters(p) ==
    LET r == IF Len(p) > 0 /\ p[1] = "/" THEN Tail(p) ELSE p
        cut == {i \in 1..Len(r) :
                   r[i] = "/" /\ \A j \in (i + 1)..Len(r) : r[j] \in LowerLetters}
    IN  IF cut = {} THEN r
        ELSE SubSeq(r, 1, (CHOOSE i \in cut : \A j \in cut : i <= j) - 1)

\* new RegExp(pattern, 'i') throws a SyntaxError on an unterminated group.
compiles(p) == \A i \in 1..Len(p) : p[i] # "("

\* regex.test(s) for a compiled case-insensitive pattern.
RegexTest(p, s) ==
    LET anchoredStart == Len(p) > 0 /\ p[1] = "^"
        p1 == IF anchoredStart THEN Tail(p) ELSE p
        anchoredEnd == Len(p1) > 0 /\ p1[Len(p1)] = "$"
        body == toLowerCase(IF anchoredEnd THEN SubSeq(p1, 1, Len(p1) - 1) ELSE p1)
        t == toLowerCase(s)
    IN  \E k \in 0..(Len(t) - Len(body)) :
            /\ SubSeq(t, k + 1, k + Len(body)) = body
            /\ anchoredStart => k = 0
            /\ anchoredEnd => k + Len(body) = Len(t)

Compiled(list) == [has |-> TRUE, list |-> list]

NoPatterns == [k \in PatternKeys |-> [has |-> FALSE, list |-> <<>>]]

\* isExcludedEmail(email, ciSystem)
isExcludedEmail(email, ciSystem, patterns) ==
    IF ~Truthy(email) THEN FALSE
    ELSE LET key == tagToLowerCase(ciSystem)
         IN  IF key \notin PatternKeys \/ ~patterns[key].has THEN FALSE
             ELSE \E i \in 1..Len(patterns[key].list) :
                      RegexTest(patterns[key].list[i], email)

-----------------------------------------------------------------------------
(* Raw commit records *)

NoObj == [present |-> FALSE, name |-> Undefined, email |-> Undefined]
Obj(n, e) == [present |-> TRUE, name |-> n, email |-> e]

\* { commit: { author: { name, email } } }   (GitHub API shape)
Nested(n, e) == [commit |-> Obj(n, e), author |-> NoObj,
                 author_name |-> Undefined, author_email |-> Undefined]
\* { author: { name, email } }   (Azure DevOps; GitHubSystem.getCommits output)
ByAuthor(n, e) == [commit |-> NoObj, author |-> Obj(n, e),
                   author_name |-> Undefined, author_email |-> Undefined]
\* { author_name, author_email }   (GitLab)
Flat(n, e) == [commit |-> NoObj, author |-> NoObj,
               author_name |-> n, author_email |-> e]
\* {}
EmptyRecord == [commit |-> NoObj, author |-> NoObj,
                author_name |-> Undefined, author_email |-> Undefined]

-----------------------------------------------------------------------------
(* extractContributors *)

\* `${name}:${email}`
identityKey(name, email) == name \o <<":">> \o email

\* authorFields whose default case reads the flat fields instead of returning
authorFieldsDefaultReadsFlat(commit, ciSystem) ==
    LET tag == tagToLowerCase(ciSystem)
    IN  CASE tag = "github" ->
               IF commit.commit.present
               THEN [kind |-> "ok", name |-> commit.commit.name, email |-> commit.commit.email]
               ELSE IF commit.author.present
               THEN [kind |-> "ok", name |-> commit.author.name, email |-> commit.author.email]
               ELSE [kind |-> "skip", name |-> Undefined, email |-> Undefined]
          [] tag = "azuredevops" ->
               IF commit.author.present
               THEN [kind |-> "ok", name |-> commit.author.name, email |-> commit.author.email]
               ELSE [kind |-> "throw", name |-> Undefined, email |-> Undefined]
          [] OTHER ->
               [kind |-> "ok", name |-> commit.author_name, email |-> commit.author_email]

\* The switch of the forEach callback: the platform's name and email fields.
authorFields(commit, ciSystem) ==
    LET tag == tagToLowerCase(ciSystem)
    IN  CASE tag = "github" ->
               IF commit.commit.present
               THEN [kind |-> "ok", name |-> commit.commit.name, email |-> commit.commit.email]
               ELSE IF commit.author.present
               THEN [kind |-> "ok", name |-> commit.author.name, email |-> commit.author.email]
               ELSE [kind |-> "skip", name |-> Undefined, email |-> Undefined]
          [] tag = "gitlab" ->
               [kind |-> "ok", name |-> commit.author_name, email |-> commit.author_email]
          [] tag = "azuredevops" ->
               IF commit.author.present
               THEN [kind |-> "ok", name |-> commit.author.name, email |-> commit.author.email]
               \* commit.author is undefined: reading .name raises a TypeError
               ELSE [kind |-> "throw", name |-> Undefined, email |-> Undefined]
          [] OTHER -> [kind |-> "skip", name |-> Undefined, email |-> Undefined]

mapHas(m, key) == \E i \in 1..Len(m) : m[i].key = key

mapIndex(m, key) == CHOOSE i \in 1..Len(m) : m[i].key = key

\* if (!map.has(key)) map.set(key, contributor); map.get(key)!.commits++
tally(m, key, name, email) ==
    IF mapHas(m, key)
    THEN [m EXCEPT ![mapIndex(m, key)].commits = @ + 1]
    ELSE Append(m, [key |-> key, name |-> name, email |-> email, commits |-> 1])

\* tallyCommit with the name-only branch lost: a record without email is
\* classified by the rules like any other.
tallyCommitNameOnlyByRules(st, commit, ciSystem, patterns) ==
    LET f == authorFields(commit, ciSystem)
    IN  IF f.kind = "throw" THEN [st EXCEPT !.threw = TRUE]
        ELSE IF f.kind = "skip" \/ ~Truthy(f.name) THEN st
        ELSE LET normalizedEmail == IF Truthy(f.email) THEN toLowerCase(f.email) ELSE <<>>
                 key == identityKey(f.name, normalizedEmail)
             IN  IF isExcludedEmail(normalizedEmail, ciSystem, patterns)
                 THEN [st EXCEPT !.removed = tally(@, key, f.name, normalizedEmail)]
                 ELSE [st EXCEPT !.included = tally(@, key, f.name, normalizedEmail)]

\* tallyCommit keying a record without email by the raw email: a missing email
\* gives the key name + ':undefined', an empty one name + ':'.
tallyCommitKeyOfRawEmail(st, commit, ciSystem, patterns) ==
    LET f == authorFields(commit, ciSystem)
    IN  IF f.kind = "throw" THEN [st EXCEPT !.threw = TRUE]
        ELSE IF f.kind = "skip" THEN st
        ELSE IF ~Truthy(f.name) \/ ~Truthy(f.email)
        THEN IF Truthy(f.name) /\ ~Truthy(f.email)
             THEN [st EXCEPT !.removed = tally(@, identityKey(f.name, f.email), f.name, <<>>)]
             ELSE st
        ELSE LET normalizedEmail == toLowerCase(f.email)
                 key == identityKey(f.name, normalizedEmail)
             IN  IF isExcludedEmail(normalizedEmail, ciSystem, patterns)
                 THEN [st EXCEPT !.removed = tally(@, key, f.name, normalizedEmail)]
                 ELSE [st EXCEPT !.included = tally(@, key, f.name, normalizedEmail)]

\* tallyCommit without the normalization of the email to lower case
tallyCommitEmailAsGiven(st, commit, ciSystem, patterns) ==
    LET f == authorFields(commit, ciSystem)
    IN  IF f.kind = "throw" THEN [st EXCEPT !.threw = TRUE]
        ELSE IF f.kind = "skip" THEN st
        ELSE IF ~Truthy(f.name) \/ ~Truthy(f.email)
        THEN IF Truthy(f.name) /\ ~Truthy(f.email)
             THEN [st EXCEPT !.removed = tally(@, f.name \o <<":">>, f.name, <<>>)]
             ELSE st
        ELSE LET key == identityKey(f.name, f.email)
             IN  IF isExcludedEmail(f.email, ciSystem, patterns)
                 THEN [st EXCEPT !.removed = tally(@, key, f.name, f.email)]
                 ELSE [st EXCEPT !.included = tally(@, key, f.name, f.email)]

\* One run of the forEach callback on the pair of maps st.
tallyCommit(st, commit, ciSystem, patterns) ==
    LET f == authorFields(commit, ciSystem)
    IN  IF f.kind = "throw" THEN [st EXCEPT !.threw = TRUE]
        ELSE IF f.kind = "skip" THEN st
        ELSE IF ~Truthy(f.name) \/ ~Truthy(f.email)
        THEN IF Truthy(f.name) /\ ~Truthy(f.email)
             THEN [st EXCEPT !.removed = tally(@, f.name \o <<":">>, f.name, <<>>)]
             ELSE st
        ELSE LET normalizedEmail == toLowerCase(f.email)
                 key == identityKey(f.name, normalizedEmail)
             IN  IF isExcludedEmail(normalizedEmail, ciSystem, patterns)
                 THEN [st EXCEPT !.removed = tally(@, key, f.name, normalizedEmail)]
                 ELSE [st EXCEPT !.included = tally(@, key, f.name, normalizedEmail)]

EmptyMaps == [included |-> <<>>, removed |-> <<>>, threw |-> FALSE]

RECURSIVE forEachFrom(_, _, _, _, _)
forEachFrom(st, commits, i, ciSystem, patterns) ==
    IF st.threw \/ i > Len(commits) THEN st
    ELSE forEachFrom(tallyCommit(st, commits[i], ciSystem, patterns),
                     commits, i + 1, ciSystem, patterns)

\* extractContributors(commits, ciSystem): [included, removed, threw]
extractContributors(commits, ciSystem, patterns) ==
    forEachFrom(EmptyMaps, commits, 1, ciSystem, patterns)

-----------------------------------------------------------------------------
(* Inputs of the extractContributors specification *)

U_M == <<"U", "@", "M">>
u_m == <<"u", "@", "m">>
v_c == <<"v", "@", "c">>

IdPool ==
    { <<(<<"a">>), U_M>>, <<(<<"a">>), u_m>>, <<(<<"b">>), v_c>>,
      <<(<<"a", ":">>), Undefined>>, <<(<<"a">>), (<<":">>)>>, <<(<<"a">>), (<<>>)>>,
      <<(<<"a">>), Undefined>>, <<(<<"A">>), u_m>>,
      <<Undefined, u_m>>, <<Undefined, Undefined>> }

RecordPool(ciSystem) ==
    LET tag == tagToLowerCase(ciSystem)
    IN  CASE tag = "github" ->
               {Nested(p[1], p[2]) : p \in IdPool}
                  \cup {ByAuthor(<<"b">>, v_c), EmptyRecord}
          [] tag = "gitlab" -> {Flat(p[1], p[2]) : p \in IdPool} \cup {EmptyRecord}
          [] tag = "azuredevops" ->
               {ByAuthor(p[1], p[2]) : p \in IdPool} \cup {EmptyRecord}
          [] OTHER -> {Flat(<<"a">>, u_m), ByAuthor(<<"b">>, v_c), EmptyRecord}

ExtractTags == {"GitHub", "gitlab", "AzureDevOps", "Bitbucket"}

\* Contents of regexPatterns that setConfig calls leave behind.
RulePool ==
    { NoPatterns,
      [k \in PatternKeys |-> Compiled(<<>>)],
      [k \in PatternKeys |-> Compiled(<<(<<"m", "$">>)>>)],
      [k \in PatternKeys |-> Compiled(<<(<<"c">>), (<<":">>)>>)] }

SeqsUpTo(S, n) == UNION {[1..k -> S] : k \in 0..n}

ZeroCounts == [gitlab |-> 0, github |-> 0, azureDevOps |-> 0]

NewSummary == [contributors |-> ZeroCounts, totalUniqueContributors |-> 0,
               selectedRepos |-> ZeroCounts, totalRepos |-> ZeroCounts]

-----------------------------------------------------------------------------
(* Files *)

NoFile == [exists |-> FALSE, content |-> <<>>]
File(c) == [exists |-> TRUE, content |-> c]

RepoPaths == {"o/r1", "o/r2"}

Dirs == {"github", "gitlab", "azuredevops"}

\* Pattern bodies, the flags a delimited form may carry, and the two forms of a rule
Bodies == << <<"c", "$">>, <<"M">>, <<"a", "/", "b">> >>

FlagSets == << <<>>, <<"i">>, <<"g">> >>

Delimited(body, flags) == <<"/">> \o body \o <<"/">> \o flags

\* One-line regex files: for body b, the bare form (k = 0) and the delimited
\* form with the k-th flags.
RuleFileNames == <<"f1", "f2", "f3", "f4", "f5", "f6", "f7", "f8", "f9", "f10", "f11", "f12">>

ruleForm(b, k) == IF k = 0 THEN Bodies[b] ELSE Delimited(Bodies[b], FlagSets[k])

ruleFile(b, k) == RuleFileNames[(b - 1) * (Len(FlagSets) + 1) + k + 1]

\* The regex files of the run, as content.split('\n') cuts them.
fsRegex(file) ==
    CASE file = "rules.txt" ->
           File(<< <<"/", "c", "$", "/", "i">>, <<" ">>, <<"(">> >>)
      [] file = "mixed.txt" ->
           File(<< <<"(">>, <<"/", "c", "$", "/", "i">>, <<"m", "$">> >>)
      [] \E b \in 1..Len(Bodies) : \E k \in 0..Len(FlagSets) : file = ruleFile(b, k) ->
           LET b == CHOOSE b \in 1..Len(Bodies) :
                        \E k \in 0..Len(FlagSets) : file = ruleFile(b, k)
               k == CHOOSE k \in 0..Len(FlagSets) : file = ruleFile(b, k)
           IN  File(<<ruleForm(b, k)>>)
      [] OTHER -> NoFile

\* !line.trim()
isBlank(line) == \A i \in 1..Len(line) : line[i] = " "

-----------------------------------------------------------------------------
(* EvaluationService.setConfig and loadRegexFromFile *)

\* setConfig, lines 406-419: the platform's list is reset, then the pattern pushed.
setConfigPatterns(patterns, config) ==
    LET ciSystem == tagToLowerCase(config.ciSystem)
        cleared == [patterns EXCEPT ![ciSystem] = Compiled(<<>>)]
        pattern == stripDelimiters(config.regexPattern)
    IN  IF Truthy(config.regexPattern) /\ compiles(pattern)
        THEN [cleared EXCEPT ![ciSystem].list = Append(@, pattern)]
        ELSE cleared

\* setConfig, lines 421-424: loadRegexFromFile is called and not awaited.
setConfigLoads(loads, config) ==
    IF config.regexFile # ""
    THEN Append(loads, [file |-> config.regexFile,
                        ciSystem |-> tagToLowerCase(config.ciSystem)])
    ELSE loads

\* loadRegexFromFile with one try around the whole forEach: the first line
\* that does not compile ends the loading.
loadedPatternsUntilInvalid(patterns, file, ciSystem) ==
    IF ~fsRegex(file).exists THEN patterns
    ELSE LET lines == SelectSeq(fsRegex(file).content, LAMBDA l : ~isBlank(l))
             clean == [i \in 1..Len(lines) |-> stripDelimiters(lines[i])]
             bad == {i \in 1..Len(clean) : ~compiles(clean[i])}
             n == IF bad = {} THEN Len(clean)
                  ELSE (CHOOSE i \in bad : \A j \in bad : i <= j) - 1
         IN  [patterns EXCEPT ![ciSystem].list = @ \o SubSeq(clean, 1, n)]

\* loadRegexFromFile after its readFile resolved (or rejected).
loadedPatterns(patterns, file, ciSystem) ==
    IF ~fsRegex(file).exists THEN patterns
    ELSE LET lines == SelectSeq(fsRegex(file).content, LAMBDA l : ~isBlank(l))
             clean == [i \in 1..Len(lines) |-> stripDelimiters(lines[i])]
         IN  [patterns EXCEPT ![ciSystem].list = @ \o SelectSeq(clean, compiles)]

\* config.ciSystem.toLowerCase() raises a TypeError when ciSystem is undefined.
setConfigThrows(config) == config.ciSystem = "undefined"

SetConfig(config) ==
    /\ regexPatterns' = setConfigPatterns(regexPatterns, config)
    /\ pendingLoads' = setConfigLoads(pendingLoads, config)

\* The readFile of one loadRegexFromFile call resolves; the calls in flight
\* resolve in any order, at any await of the caller.
LoadRegexComplete ==
    /\ \E i \in 1..Len(pendingLoads) :
          /\ regexPatterns' = loadedPatterns(regexPatterns, pendingLoads[i].file,
                                             pendingLoads[i].ciSystem)
          /\ pendingLoads' = SubSeq(pendingLoads, 1, i - 1)
                                \o SubSeq(pendingLoads, i + 1, Len(pendingLoads))
    /\ UNCHANGED <<summary, ev, evaluation, calls, fsCommits, fsSummary, mainVars, extractVars,
                   clientVars>>

-----------------------------------------------------------------------------
(* EvaluationService.evaluateContributors *)

\* readCommits: the parsed commits.json, [] when it cannot be read
readCommits(fs, ciSystem, path) ==
    LET dir == tagToLowerCase(ciSystem)
    IN  IF dir \in Dirs /\ fs[dir][path].exists THEN fs[dir][path].content ELSE <<>>

\* Array.from(map.values())
mapValues(m) ==
    [i \in 1..Len(m) |-> [name |-> m[i].name, email |-> m[i].email, commits |-> m[i].commits]]

\* mergeContributors without the lookup of the key in the system-wide list
mergeContributorsAppendAll(list, adds, i) == list \o SubSeq(adds, i, Len(adds))

RECURSIVE mergeContributorsSumsCommits(_, _, _)
\* mergeContributors with the commits of a contributor already listed added up
mergeContributorsSumsCommits(list, adds, i) ==
    IF i > Len(adds) THEN list
    ELSE mergeContributorsSumsCommits(
             IF \E j \in 1..Len(list) :
                    identityKey(list[j].name, list[j].email)
                        = identityKey(adds[i].name, adds[i].email)
             THEN [j \in 1..Len(list) |->
                      IF identityKey(list[j].name, list[j].email)
                             = identityKey(adds[i].name, adds[i].email)
                      THEN [list[j] EXCEPT !.commits = @ + adds[i].commits]
                      ELSE list[j]]
             ELSE Append(list, adds[i]),
             adds, i + 1)

RECURSIVE mergeContributors(_, _, _)
\* lines 661-666: push the contributors whose key the system-wide list lacks
mergeContributors(list, adds, i) ==
    IF i > Len(adds) THEN list
    ELSE mergeContributors(
             IF \E j \in 1..Len(list) :
                    identityKey(list[j].name, list[j].email)
                        = identityKey(adds[i].name, adds[i].email)
             THEN list ELSE Append(list, adds[i]),
             adds, i + 1)

\* The summary field of a platform, "none" when the switch has no case for it.
summaryField(ciSystem) ==
    LET normalizedSystem == tagToLowerCase(ciSystem)
    IN  CASE normalizedSystem = "gitlab" -> "gitlab"
          [] normalizedSystem = "github" -> "github"
          [] normalizedSystem = "azuredevops" -> "azureDevOps"
          [] OTHER -> "none"

\* updateSummary with the total added to instead of recomputed
updateSummaryAddsTotal(s, ciSystem, nContributors, nRepos) ==
    LET f == summaryField(ciSystem)
        s1 == IF f = "none" THEN s
              ELSE [s EXCEPT !.contributors[f] = nContributors,
                             !.selectedRepos[f] = nRepos,
                             !.totalRepos[f] = nRepos]
    IN  [s1 EXCEPT !.totalUniqueContributors = @ + nContributors]

\* updateSummary with the platform's counters added to instead of assigned
updateSummaryAccumulates(s, ciSystem, nContributors, nRepos) ==
    LET f == summaryField(ciSystem)
        s1 == IF f = "none" THEN s
              ELSE [s EXCEPT !.contributors[f] = @ + nContributors,
                             !.selectedRepos[f] = @ + nRepos,
                             !.totalRepos[f] = @ + nRepos]
    IN  [s1 EXCEPT !.totalUniqueContributors =
             s1.contributors.gitlab + s1.contributors.github + s1.contributors.azureDevOps]

\* lines 677-701: the platform's counters, then the total
updateSummary(s, ciSystem, nContributors, nRepos) ==
    LET f == summaryField(ciSystem)
        s1 == IF f = "none" THEN s
              ELSE [s EXCEPT !.contributors[f] = nContributors,
                             !.selectedRepos[f] = nRepos,
                             !.totalRepos[f] = nRepos]
    IN  [s1 EXCEPT !.totalUniqueContributors =
             s1.contributors.gitlab + s1.contributors.github + s1.contributors.azureDevOps]

\* readRepoList: the paths of the rows whose Include is 'Y'
readRepoList(fs, ciSystem) ==
    LET dir == tagToLowerCase(ciSystem)
    IN  IF dir \notin Dirs \/ ~fs[dir].exists THEN <<>>
        ELSE LET rows == SelectSeq(fs[dir].content, LAMBDA row : row.include = "Y")
             IN  [i \in 1..Len(rows) |-> rows[i].path]

NoWorkbook == [exists |-> FALSE, summary |-> NewSummary, sheets |-> {}]

RECURSIVE detailRows(_, _, _, _, _, _)
\* writeDetailedTab, the loop over the repositories of the selection list from
\* the i-th on: the rows added to the two worksheets; an error ends the loop.
detailRows(rows, repos, i, ciSystem, fs, patterns) ==
    IF i > Len(repos) THEN rows
    ELSE LET r == extractContributors(readCommits(fs, ciSystem, repos[i]), ciSystem, patterns)
             row(c) == [repo |-> repos[i], committer |-> c.name, email |-> c.email]
         IN  IF r.threw THEN rows
             ELSE detailRows([details |-> rows.details
                                  \o [k \in 1..Len(r.included) |-> row(r.included[k])],
                              removed |-> rows.removed
                                  \o [k \in 1..Len(r.removed) |-> row(r.removed[k])]],
                             repos, i + 1, ciSystem, fs, patterns)

\* writeDetailedTab(workbook, tabName): the two worksheets it adds
writeDetailedTab(tabName, ciSystem, repos, fs, patterns) ==
    LET rows == detailRows([details |-> <<>>, removed |-> <<>>], repos, 1, ciSystem, fs,
                           patterns)
    IN  { [name |-> tabName, rows |-> rows.details],
          [name |-> tabName \o " - Removed", rows |-> rows.removed] }

DetailTabs ==
    { [field |-> "gitlab", tabName |-> "GitLab Details", ciSystem |-> "gitlab"],
      [field |-> "github", tabName |-> "GitHub Details", ciSystem |-> "github"],
      [field |-> "azureDevOps", tabName |-> "Azure DevOps Details", ciSystem |-> "azuredevops"] }

\* writeSummary: the workbook written to scm_summary.xlsx; included(ciSystem) is
\* what this.readRepoList returns for the platform
writeSummary(s, included, fs, patterns) ==
    [exists |-> TRUE, summary |-> s,
     sheets |-> UNION { writeDetailedTab(t.tabName, t.ciSystem, included[t.ciSystem], fs, patterns) :
                           t \in {d \in DetailTabs : s.contributors[d.field] > 0} }]

Idle == [pc |-> "idle", repos |-> <<>>, ciSystem |-> "", i |-> 0,
         repoContributors |-> <<>>, contributors |-> <<>>, removedContributors |-> <<>>]

\* The call of evaluateContributors, up to its first await.
BeginEvaluate(repos, ciSystem) ==
    /\ ev' = [Idle EXCEPT !.pc = IF repos = <<>> THEN "write" ELSE "loop",
                          !.repos = repos, !.ciSystem = ciSystem]
    /\ summary' = IF repos = <<>> THEN updateSummary(summary, ciSystem, 0, 0) ELSE summary

\* EvalRepo with a readCommits that lets the error of a missing file through
EvalRepoFailsOnMissingFile ==
    /\ ev.pc = "loop"
    /\ LET repo == ev.repos[ev.i + 1]
           dir == tagToLowerCase(ev.ciSystem)
           r == extractContributors(readCommits(fsCommits, ev.ciSystem, repo),
                                    ev.ciSystem, regexPatterns)
           contributors == mergeContributors(ev.contributors, mapValues(r.included), 1)
           removed == mergeContributors(ev.removedContributors, mapValues(r.removed), 1)
           last == ev.i + 1 = Len(ev.repos)
       IN  IF r.threw \/ dir \notin Dirs \/ ~fsCommits[dir][repo].exists
           THEN /\ ev' = [ev EXCEPT !.pc = "rejected"]
                /\ UNCHANGED summary
           ELSE /\ ev' = [ev EXCEPT
                            !.pc = IF last THEN "write" ELSE "loop",
                            !.i = @ + 1,
                            !.repoContributors =
                                Append(@, [repo |-> repo,
                                           contributors |-> mapValues(r.included),
                                           removedContributors |-> mapValues(r.removed)]),
                            !.contributors = contributors,
                            !.removedContributors = removed]
                /\ summary' = IF last
                              THEN updateSummary(summary, ev.ciSystem,
                                                 Len(contributors), Len(ev.repos))
                              ELSE summary
    /\ UNCHANGED <<regexPatterns, pendingLoads, evaluation, calls, fsCommits, fsSummary,
                   mainVars, extractVars, clientVars>>

\* EvalRepo with the removed contributors counted in the platform's counter
EvalRepoCountsRemoved ==
    /\ ev.pc = "loop"
    /\ LET repo == ev.repos[ev.i + 1]
           r == extractContributors(readCommits(fsCommits, ev.ciSystem, repo),
                                    ev.ciSystem, regexPatterns)
           contributors == mergeContributors(ev.contributors, mapValues(r.included), 1)
           removed == mergeContributors(ev.removedContributors, mapValues(r.removed), 1)
           last == ev.i + 1 = Len(ev.repos)
       IN  IF r.threw
           THEN /\ ev' = [ev EXCEPT !.pc = "rejected"]
                /\ UNCHANGED summary
           ELSE /\ ev' = [ev EXCEPT
                            !.pc = IF last THEN "write" ELSE "loop",
                            !.i = @ + 1,
                            !.repoContributors =
                                Append(@, [repo |-> repo,
                                           contributors |-> mapValues(r.included),
                                           removedContributors |-> mapValues(r.removed)]),
                            !.contributors = contributors,
                            !.removedContributors = removed]
                /\ summary' = IF last
                              THEN updateSummary(summary, ev.ciSystem,
                                                 Len(contributors) + Len(removed),
                                                 Len(ev.repos))
                              ELSE summary
    /\ UNCHANGED <<regexPatterns, pendingLoads, evaluation, calls, fsCommits, fsSummary,
                   mainVars, extractVars, clientVars>>

\* readCommits of the next repository resolves: one iteration of the loop over
\* repos and, after the last one, the update of the summary.
EvalRepo ==
    /\ ev.pc = "loop"
    /\ LET repo == ev.repos[ev.i + 1]
           r == extractContributors(readCommits(fsCommits, ev.ciSystem, repo),
                                    ev.ciSystem, regexPatterns)
           contributors == mergeContributors(ev.contributors, mapValues(r.included), 1)
           removed == mergeContributors(ev.removedContributors, mapValues(r.removed), 1)
           last == ev.i + 1 = Len(ev.repos)
       IN  IF r.threw
           THEN /\ ev' = [ev EXCEPT !.pc = "rejected"]
                /\ UNCHANGED summary
           ELSE /\ ev' = [ev EXCEPT
                            !.pc = IF last THEN "write" ELSE "loop",
                            !.i = @ + 1,
                            !.repoContributors =
                                Append(@, [repo |-> repo,
                                           contributors |-> mapValues(r.included),
                                           removedContributors |-> mapValues(r.removed)]),
                            !.contributors = contributors,
                            !.removedContributors = removed]
                /\ summary' = IF last
                              THEN updateSummary(summary, ev.ciSystem,
                                                 Len(contributors), Len(ev.repos))
                              ELSE summary
    /\ UNCHANGED <<regexPatterns, pendingLoads, evaluation, calls, fsCommits, fsSummary,
                   mainVars, extractVars, clientVars>>

\* evaluateContributors returning with the summary left for a later step to write
EvalReturnUnwritten ==
    /\ ev.pc = "write"
    /\ ev' = [ev EXCEPT !.pc = "returned"]
    /\ UNCHANGED <<regexPatterns, pendingLoads, summary, evaluation, calls, fsCommits,
                   fsSummary, mainVars, extractVars, clientVars>>

\* await this.writeSummary() resolves and evaluateContributors returns.
EvalWriteSummary ==
    /\ ev.pc = "write"
    /\ fsSummary' = writeSummary(summary, [d \in Dirs |-> readRepoList(fsRepoList, d)],
                                 fsCommits, regexPatterns)
    /\ ev' = [ev EXCEPT !.pc = "returned"]
    /\ UNCHANGED <<regexPatterns, pendingLoads, summary, evaluation, calls, fsCommits,
                   mainVars, extractVars, clientVars>>

\* The value evaluateContributors resolved with.
returned(e) == [system |-> e.ciSystem, repos |-> e.repos,
                repoContributors |-> e.repoContributors,
                contributors |-> e.contributors,
                removedContributors |-> e.removedContributors]

NoEvaluation == [system |-> "", repos |-> <<>>, repoContributors |-> <<>>,
                 contributors |-> <<>>, removedContributors |-> <<>>]

-----------------------------------------------------------------------------
(* Commit histories *)

w_c == <<"w", "@", "c">>

\* The shape commits.json has for a platform: GitHubSystem.getCommits stores
\* { author: { name, email } }, GitLab its API's flat records, Azure DevOps its API's.
stored(dir, n, e) == IF dir = "gitlab" THEN Flat(n, e) ELSE ByAuthor(n, e)

history(dir, path) ==
    IF path = "o/r1"
    THEN << stored(dir, <<"a">>, U_M), stored(dir, <<"b">>, v_c), stored(dir, <<"b">>, v_c) >>
    ELSE << stored(dir, <<"b">>, v_c), stored(dir, <<"d">>, w_c) >>

\* A caller of the EvaluationService other than main
CallerConfigs ==
    { [ciSystem |-> "GitHub", regexPattern |-> <<"/", "m", "$", "/", "i">>,
       regexFile |-> "", forceReload |-> FALSE],
      [ciSystem |-> "GitHub", regexPattern |-> Undefined,
       regexFile |-> "rules.txt", forceReload |-> FALSE],
      [ciSystem |-> "GitLab", regexPattern |-> <<"(">>,
       regexFile |-> "missing.txt", forceReload |-> FALSE],
      [ciSystem |-> "GitLab", regexPattern |-> <<"(">>,
       regexFile |-> "mixed.txt", forceReload |-> FALSE],
      [ciSystem |-> "Azure-DevOps", regexPattern |-> <<"m", "$">>,
       regexFile |-> "", forceReload |-> FALSE] }

EvalTags == {"GitHub", "GitLab", "AzureDevOps", "Bitbucket"}

RepoArgs == {<<>>, <<"o/r1">>, <<"o/r1", "o/r2">>, <<"o/r2", "o/r1">>}

FsCommitsPool ==
    { [d \in Dirs |-> [p \in RepoPaths |-> File(history(d, p))]],
      [d \in Dirs |-> [p \in RepoPaths |->
          IF p = "o/r1" THEN File(history(d, p)) ELSE NoFile]] }

-----------------------------------------------------------------------------
(* main *)

CISystemNames == {"GitHub", "GitLab", "Azure-DevOps"}

\* system.constructor.name.replace('System', '') of the client main creates
systemTag(ciSystemName) ==
    CASE ciSystemName = "GitHub" -> "GitHub"
      [] ciSystemName = "GitLab" -> "GitLab"
      [] ciSystemName = "Azure-DevOps" -> "AzureDevOps"

\* the directory and the repository list of a system: the tag in lower case
systemDir(ciSystemName) == tagToLowerCase(systemTag(ciSystemName))

\* {} as CISystemConfig
EmptyConfig == [ciSystem |-> "undefined", regexPattern |-> Undefined,
                regexFile |-> "", forceReload |-> FALSE]

\* The configs CLI.getConfig and ConfigService.readConfig hand to main
MainConfigs(ciSystemName) ==
    { [ciSystem |-> ciSystemName, regexPattern |-> <<"/", "m", "$", "/", "i">>,
       regexFile |-> "rules.txt", forceReload |-> FALSE],
      [ciSystem |-> ciSystemName, regexPattern |-> <<"/", "m", "$", "/", "i">>,
       regexFile |-> "", forceReload |-> TRUE] }

\* saved: the rows marked 'Y' in the list as the user left it at the end of the review
NoSystem == [name |-> "", config |-> EmptyConfig, repos |-> <<>>, clientIncluded |-> {},
             saved |-> {}]

\* What the platform lists for the token
serverRepos(ciSystemName) == <<"o/r1", "o/r2">>

\* writeRepoList: one row per repository, Include = 'Y'
writeRepoList(repos) == File([i \in 1..Len(repos) |-> [path |-> repos[i], include |-> "Y"]])

\* The client's setConfig: includedRepos from the rows marked 'Y'
clientIncludedRepos(file) ==
    {file.content[i].path : i \in {j \in 1..Len(file.content) : file.content[j].include = "Y"}}

\* GitHubSystem and GitLabSystem setConfig throw when the list cannot be read
clientSetConfigThrows(ciSystemName, fs) ==
    ciSystemName \in {"GitHub", "GitLab"} /\ ~fs[systemDir(ciSystemName)].exists

\* The user's edit of the Include column during the review
markExcluded(file, paths) ==
    [file EXCEPT !.content =
        [i \in 1..Len(@) |-> IF @[i].path \in paths THEN [@[i] EXCEPT !.include = "N"]
                             ELSE @[i]]]

ReviewEdits == {{}, {"o/r2"}}

\* CLI.getInitialMode
GetInitialMode ==
    /\ pc = "start"
    /\ \E m \in {"fetch", "evaluate"} :
          /\ mode' = m
          /\ pc' = IF m = "fetch" THEN "p1_options" ELSE "p1_existing"
    /\ UNCHANGED <<svcVars, fsRepoList, systems, cur, sysIdx, includedRepos, fetchIdx,
                   apiCalls, extractVars, clientVars>>

RECURSIVE existingSystems(_, _)
\* lines 144-171: the systems whose stored repository list has an included row
existingSystems(names, fs) ==
    IF names = <<>> THEN <<>>
    ELSE LET repos == readRepoList(fs, systemTag(Head(names)))
             rest == existingSystems(Tail(names), fs)
         IN  IF Len(repos) > 0
             THEN <<[name |-> Head(names), config |-> EmptyConfig, repos |-> repos,
                     clientIncluded |-> {}, saved |-> {}]>> \o rest
             ELSE rest

LoadExisting ==
    /\ pc = "p1_existing"
    /\ systems' = existingSystems(<<"GitHub", "GitLab", "Azure-DevOps">>, fsRepoList)
    /\ pc' = "p2_next"
    /\ UNCHANGED <<svcVars, fsRepoList, mode, cur, sysIdx, includedRepos, fetchIdx,
                   apiCalls, extractVars, clientVars>>

\* choices: ['GitHub', 'GitLab', 'Azure-DevOps']
menuIndex(ciSystemName) ==
    CASE ciSystemName = "GitHub" -> 1
      [] ciSystemName = "GitLab" -> 2
      [] ciSystemName = "Azure-DevOps" -> 3

\* lines 50-91: the system and its config are chosen, the client reads the list
P1Configure ==
    /\ pc = "p1_options"
    \* the user of a run chooses each platform once, in the order of the menu
    /\ \E name \in {n \in CISystemNames :
                       \A i \in 1..Len(systems) : menuIndex(systems[i].name) < menuIndex(n)} :
       \E config \in MainConfigs(name) :
          IF clientSetConfigThrows(name, fsRepoList)
          THEN /\ pc' = "exit1"
               /\ cur' = [NoSystem EXCEPT !.name = name]
               /\ UNCHANGED fsRepoList
          ELSE /\ fsRepoList' = IF fsRepoList[systemDir(name)].exists THEN fsRepoList
                                ELSE [fsRepoList EXCEPT ![systemDir(name)] = File(<<>>)]
               /\ cur' = [name |-> name, config |-> config, repos |-> <<>>,
                          clientIncluded |->
                              clientIncludedRepos(fsRepoList'[systemDir(name)]),
                          saved |-> {}]
               /\ pc' = "p1_repos"
    /\ UNCHANGED <<svcVars, mode, systems, sysIdx, includedRepos, fetchIdx, apiCalls,
                   extractVars, clientVars>>

\* lines 93-113: getRepos, writeRepoList
P1GetRepos ==
    /\ pc = "p1_repos"
    /\ apiCalls' = apiCalls \cup {[op |-> "getRepos", system |-> cur.name, repo |-> ""]}
    /\ cur' = [cur EXCEPT !.repos = serverRepos(cur.name)]
    /\ fsRepoList' = [fsRepoList EXCEPT
                         ![systemDir(cur.name)] = writeRepoList(serverRepos(cur.name))]
    /\ pc' = "p1_review"
    /\ UNCHANGED <<svcVars, mode, systems, sysIdx, includedRepos, fetchIdx, extractVars,
                   clientVars>>

\* lines 115-140: the review, systems.push, promptAddAnother
P1Review ==
    /\ pc = "p1_review"
    /\ \E edit \in ReviewEdits :
          fsRepoList' = [fsRepoList EXCEPT ![systemDir(cur.name)] = markExcluded(@, edit)]
    /\ systems' = Append(systems,
                          [cur EXCEPT !.saved =
                               clientIncludedRepos(fsRepoList'[systemDir(cur.name)])])
    /\ \E addAnother \in BOOLEAN :
          /\ addAnother => Len(systems') < MaxSystems
          /\ pc' = IF addAnother THEN "p1_options" ELSE "p2_next"
    /\ UNCHANGED <<svcVars, mode, cur, sysIdx, includedRepos, fetchIdx, apiCalls,
                   extractVars, clientVars>>

\* line 256: the loop over systems is over
P2Done ==
    /\ pc = "p2_next"
    /\ sysIdx = Len(systems)
    /\ pc' = "done"
    /\ UNCHANGED <<svcVars, fsRepoList, mode, systems, cur, sysIdx, includedRepos,
                   fetchIdx, apiCalls, extractVars, clientVars>>

\* lines 175-190: the next system, evaluationService.setConfig(config)
P2Begin ==
    /\ pc = "p2_next"
    /\ sysIdx < Len(systems)
    /\ sysIdx' = sysIdx + 1
    /\ cur' = systems[sysIdx + 1]
    /\ IF setConfigThrows(cur'.config)
       THEN /\ pc' = "exit1"
            /\ UNCHANGED <<regexPatterns, pendingLoads>>
       ELSE /\ SetConfig(cur'.config)
            /\ pc' = IF cur'.config.forceReload THEN "p2_force" ELSE "p2_readlist"
    /\ UNCHANGED <<summary, ev, evaluation, calls, fsCommits, fsSummary, fsRepoList, mode,
                   systems, includedRepos, fetchIdx, apiCalls, extractVars, clientVars>>

\* lines 190-205: force reload
P2ForceReload ==
    /\ pc = "p2_force"
    /\ apiCalls' = apiCalls \cup {[op |-> "getRepos", system |-> cur.name, repo |-> ""]}
    /\ fsCommits' = [fsCommits EXCEPT ![systemDir(cur.name)] = [p \in RepoPaths |-> NoFile]]
    /\ fsRepoList' = [fsRepoList EXCEPT
                         ![systemDir(cur.name)] = writeRepoList(serverRepos(cur.name))]
    /\ pc' = "p2_readlist"
    /\ UNCHANGED <<regexPatterns, pendingLoads, summary, ev, evaluation, calls, fsSummary,
                   mode, systems, cur, sysIdx, includedRepos, fetchIdx, extractVars, clientVars>>

\* line 248: evaluationService.evaluateContributors(includedRepos, tag) is called
CallEvaluate(repos) ==
    /\ BeginEvaluate(repos, systemTag(cur.name))
    /\ pc' = "p2_eval"

\* lines 207-211: readRepoList; with nothing to fetch the evaluation starts
P2ReadRepoList ==
    /\ pc = "p2_readlist"
    /\ includedRepos' = readRepoList(fsRepoList, systemTag(cur.name))
    /\ fetchIdx' = 0
    /\ IF mode = "fetch" /\ Len(includedRepos') > 0
       THEN /\ pc' = "p2_fetch"
            /\ UNCHANGED <<ev, summary>>
       ELSE CallEvaluate(includedRepos')
    /\ errors' = {}
    /\ UNCHANGED <<regexPatterns, pendingLoads, evaluation, calls, fsCommits, fsSummary,
                   fsRepoList, mode, systems, cur, sysIdx, apiCalls, extractVars, azure,
                   storage, request>>

\* AzureDevOpsSystem.getContributors, the filter of one page:
\* response.value.filter(newCommit => !commits.some(existingCommit => same author))
newCommits(commits, value) ==
    SelectSeq(value, LAMBDA newCommit :
        ~\E k \in 1..Len(commits) :
             /\ commits[k].author.email = newCommit.author.email
             /\ commits[k].author.name = newCommit.author.name)

RECURSIVE collectPages(_, _, _)
\* The do-while loop of getContributors from page i on
collectPages(commits, pages, i) ==
    IF i > Len(pages) THEN commits
    ELSE collectPages(commits \o newCommits(commits, pages[i]), pages, i + 1)

\* The pages of a commit history cut after the positions in cuts
Split(commits, cuts) ==
    LET ends == cuts \cup {Len(commits)}
        end(k) == CHOOSE e \in ends : Cardinality({x \in ends : x <= e}) = k
        start(k) == IF k = 1 THEN 1 ELSE end(k - 1) + 1
    IN  [k \in 1..Cardinality(ends) |-> SubSeq(commits, start(k), end(k))]

\* The ways the platform may page a commit history
PagesOf(commits) == { Split(commits, cuts) : cuts \in SUBSET (1..(Len(commits) - 1)) }

\* What getCommits of a client returns for a repository when its requests succeed
getCommits(ciSystemName, commits) ==
    IF ciSystemName = "Azure-DevOps"
    THEN { collectPages(<<>>, pages, 1) : pages \in PagesOf(commits) }
    ELSE { commits }

\* The iteration of the fetch loop without the check for an existing commits.json
P2FetchRepoAlways ==
    /\ pc = "p2_fetch"
    /\ fetchIdx < Len(includedRepos)
    /\ fetchIdx' = fetchIdx + 1
    /\ LET repo == includedRepos[fetchIdx + 1]
           dir == systemDir(cur.name)
           \* catch (error) { console.error(`Error processing ${repo.path}:`, error) }
           Caught == /\ errors' = errors \cup {repo}
                     /\ fsCommits' = fsCommits
           \* await storageService.storeCommits(...): commits.json is replaced, or the
           \* call throws and leaves it as it was
           Store(commits) == \/ /\ fsCommits' = [fsCommits EXCEPT ![dir][repo] = File(commits)]
                                /\ UNCHANGED errors
                             \/ Caught
       IN  IF repo \notin cur.clientIncluded
           THEN /\ Store(<<>>)
                /\ UNCHANGED apiCalls
           ELSE /\ apiCalls' = apiCalls \cup
                                  {[op |-> "getCommits", system |-> cur.name, repo |-> repo]}
                /\ \/ \E commits \in getCommits(cur.name, history(dir, repo)) : Store(commits)
                   \* a failed request: GitLabSystem.getContributors catches it and
                   \* returns the commits of the pages before, the other clients rethrow
                   \/ IF cur.name = "GitLab" THEN Store(<<>>) ELSE Caught
    /\ IF fetchIdx' = Len(includedRepos)
       THEN CallEvaluate(includedRepos)
       ELSE UNCHANGED <<pc, ev, summary>>
    /\ UNCHANGED <<regexPatterns, pendingLoads, evaluation, calls, fsSummary, fsRepoList,
                   mode, systems, cur, sysIdx, includedRepos, extractVars, azure, storage,
                   request>>

\* The iteration of the fetch loop with no catch around its body
P2FetchRepoErrorEndsRun ==
    /\ pc = "p2_fetch"
    /\ fetchIdx < Len(includedRepos)
    /\ fetchIdx' = fetchIdx + 1
    /\ LET repo == includedRepos[fetchIdx + 1]
           dir == systemDir(cur.name)
           \* catch (error) { console.error(`Error processing ${repo.path}:`, error) }
           Caught == /\ errors' = errors \cup {repo}
                     /\ fsCommits' = fsCommits
           \* await storageService.storeCommits(...): commits.json is replaced, or the
           \* call throws and leaves it as it was
           Store(commits) == \/ /\ fsCommits' = [fsCommits EXCEPT ![dir][repo] = File(commits)]
                                /\ UNCHANGED errors
                             \/ Caught
       IN  IF ~cur.config.forceReload /\ fsCommits[dir][repo].exists
           THEN UNCHANGED <<fsCommits, apiCalls, errors>>
           ELSE IF repo \notin cur.clientIncluded
           THEN /\ Store(<<>>)
                /\ UNCHANGED apiCalls
           ELSE /\ apiCalls' = apiCalls \cup
                                  {[op |-> "getCommits", system |-> cur.name, repo |-> repo]}
                /\ \/ \E commits \in getCommits(cur.name, history(dir, repo)) : Store(commits)
                   \* a failed request: GitLabSystem.getContributors catches it and
                   \* returns the commits of the pages before, the other clients rethrow
                   \/ IF cur.name = "GitLab" THEN Store(<<>>) ELSE Caught
    /\ IF errors' # errors
       THEN pc' = "exit1" /\ UNCHANGED <<ev, summary>>
       ELSE IF fetchIdx' = Len(includedRepos)
       THEN CallEvaluate(includedRepos)
       ELSE UNCHANGED <<pc, ev, summary>>
    /\ UNCHANGED <<regexPatterns, pendingLoads, evaluation, calls, fsSummary, fsRepoList,
                   mode, systems, cur, sysIdx, includedRepos, extractVars, azure, storage,
                   request>>

\* lines 213-244: one iteration of the fetch loop; after the last, the evaluation starts
P2FetchRepo ==
    /\ pc = "p2_fetch"
    /\ fetchIdx < Len(includedRepos)
    /\ fetchIdx' = fetchIdx + 1
    /\ LET repo == includedRepos[fetchIdx + 1]
           dir == systemDir(cur.name)
           \* catch (error) { console.error(`Error processing ${repo.path}:`, error) }
           Caught == /\ errors' = errors \cup {repo}
                     /\ fsCommits' = fsCommits
           \* await storageService.storeCommits(...): commits.json is replaced, or the
           \* call throws and leaves it as it was
           Store(commits) == \/ /\ fsCommits' = [fsCommits EXCEPT ![dir][repo] = File(commits)]
                                /\ UNCHANGED errors
                             \/ Caught
       IN  IF ~cur.config.forceReload /\ fsCommits[dir][repo].exists
           THEN UNCHANGED <<fsCommits, apiCalls, errors>>
           ELSE IF repo \notin cur.clientIncluded
           THEN /\ Store(<<>>)
                /\ UNCHANGED apiCalls
           ELSE /\ apiCalls' = apiCalls \cup
                                  {[op |-> "getCommits", system |-> cur.name, repo |-> repo]}
                /\ \/ \E commits \in getCommits(cur.name, history(dir, repo)) : Store(commits)
                   \* a failed request: GitLabSystem.getContributors catches it and
                   \* returns the commits of the pages before, the other clients rethrow
                   \/ IF cur.name = "GitLab" THEN Store(<<>>) ELSE Caught
    /\ IF fetchIdx' = Len(includedRepos)
       THEN CallEvaluate(includedRepos)
       ELSE UNCHANGED <<pc, ev, summary>>
    /\ UNCHANGED <<regexPatterns, pendingLoads, evaluation, calls, fsSummary, fsRepoList,
                   mode, systems, cur, sysIdx, includedRepos, extractVars, azure, storage,
                   request>>

\* lines 248-253: evaluateContributors resolved
P2AfterEvaluate ==
    /\ pc = "p2_eval"
    /\ ev.pc = "returned"
    /\ evaluation' = returned(ev)
    /\ ev' = Idle
    /\ pc' = "p2_next"
    /\ UNCHANGED <<regexPatterns, pendingLoads, summary, calls, fsCommits, fsSummary,
                   fsRepoList, mode, systems, cur, sysIdx, includedRepos, fetchIdx,
                   apiCalls, extractVars, clientVars>>

\* lines 257-260: evaluateContributors rejected; main exits with code 1
P2EvaluateRejected ==
    /\ pc = "p2_eval"
    /\ ev.pc = "rejected"
    /\ ev' = Idle
    /\ pc' = "exit1"
    /\ UNCHANGED <<regexPatterns, pendingLoads, summary, evaluation, calls, fsCommits,
                   fsSummary, fsRepoList, mode, systems, cur, sysIdx, includedRepos,
                   fetchIdx, apiCalls, extractVars, clientVars>>

-----------------------------------------------------------------------------
(* Initial states *)

NoRepoLists == [d \in Dirs |-> NoFile]
NoCommits == [d \in Dirs |-> [p \in RepoPaths |-> NoFile]]

ListOf(r1, r2) == File(<<[path |-> "o/r1", include |-> r1], [path |-> "o/r2", include |-> r2]>>)

\* The contributors directory at the start of a run: a first run; a run after
\* an earlier one that fetched o/r1 only; a run with lists, no commits of
\* GitHub and GitLab, and an Azure DevOps commits.json holding a record
\* without author.
FsPool ==
    { [lists |-> NoRepoLists, commits |-> NoCommits],
      [lists |-> [d \in Dirs |-> ListOf("Y", "N")],
       commits |-> [d \in Dirs |-> [p \in RepoPaths |->
                       IF p = "o/r1" THEN File(history(d, p)) ELSE NoFile]]],
      [lists |-> [d \in Dirs |-> ListOf("Y", "Y")],
       commits |-> [NoCommits EXCEPT !["azuredevops"]["o/r2"] = File(<<EmptyRecord>>)]] }

ServiceWith(patterns) ==
    /\ regexPatterns = patterns
    /\ pendingLoads = <<>>
    /\ summary = NewSummary
    /\ ev = Idle
    /\ evaluation = NoEvaluation
    /\ calls = 0
    /\ fsSummary = NoWorkbook

ServiceNew == ServiceWith(NoPatterns)

\* No call of a client or of the storage is in progress.
NoAzureCall == [pc |-> "idle", pages |-> <<>>, page |-> 0, commits |-> <<>>]

NoStoreCall == [pc |-> "idle"]

NoRequest == [pc |-> "idle"]

ClientsIdle ==
    /\ azure = NoAzureCall
    /\ storage = NoStoreCall
    /\ request = NoRequest
    /\ errors = {}

MainNotStarted(at) ==
    /\ ClientsIdle
    /\ pc = at
    /\ mode = "unset"
    /\ systems = <<>>
    /\ cur = NoSystem
    /\ sysIdx = 0
    /\ includedRepos = <<>>
    /\ fetchIdx = 0
    /\ apiCalls = {}

ExtractIdle ==
    /\ x_ciSystem = ""
    /\ x_commits = <<>>
    /\ x_i = 0
    /\ contributorMap = <<>>
    /\ removedContributorMap = <<>>
    /\ x_pc = "idle"

-----------------------------------------------------------------------------
(* Specification of the program: main with its EvaluationService *)

Init ==
    /\ ServiceNew
    /\ \E f \in FsPool : fsRepoList = f.lists /\ fsCommits = f.commits
    /\ MainNotStarted("start")
    /\ ExtractIdle

Next ==
    \/ GetInitialMode
    \/ LoadExisting
    \/ P1Configure
    \/ P1GetRepos
    \/ P1Review
    \/ P2Done
    \/ P2Begin
    \/ P2ForceReload
    \/ P2ReadRepoList
    \/ P2FetchRepo
    \/ P2AfterEvaluate
    \/ P2EvaluateRejected
    \/ LoadRegexComplete
    \/ EvalRepo
    \/ EvalWriteSummary

Spec == Init /\ [][Next]_vars

-----------------------------------------------------------------------------
(* Specification of an EvaluationService under any sequence of calls *)

InitEval ==
    /\ ServiceNew
    /\ fsRepoList = NoRepoLists
    /\ fsCommits \in FsCommitsPool
    /\ MainNotStarted("caller")
    /\ ExtractIdle

\* evaluationService.setConfig(config)
CallSetConfig ==
    /\ pc = "caller"
    /\ ev.pc = "idle"
    /\ calls < MaxCalls
    /\ calls' = calls + 1
    /\ \E config \in CallerConfigs :
          /\ SetConfig(config)
          \* this.config = config
          /\ cur' = [NoSystem EXCEPT !.config = config]
    /\ UNCHANGED <<summary, ev, evaluation, fsCommits, fsSummary, fsRepoList, pc, mode,
                   systems, sysIdx, includedRepos, fetchIdx, apiCalls, extractVars, clientVars>>

\* evaluationService.evaluateContributors(repos, ciSystem)
CallEvaluateContributors ==
    /\ pc = "caller"
    /\ ev.pc = "idle"
    /\ calls < MaxCalls
    /\ calls' = calls + 1
    /\ \E repos \in RepoArgs : \E ciSystem \in EvalTags : BeginEvaluate(repos, ciSystem)
    /\ UNCHANGED <<regexPatterns, pendingLoads, evaluation, fsCommits, fsSummary, mainVars,
                   extractVars, clientVars>>

\* the caller's await of evaluateContributors resumes
AwaitEvaluate ==
    /\ pc = "caller"
    /\ ev.pc \in {"returned", "rejected"}
    /\ evaluation' = IF ev.pc = "returned" THEN returned(ev) ELSE evaluation
    /\ ev' = Idle
    /\ UNCHANGED <<regexPatterns, pendingLoads, summary, calls, fsCommits, fsSummary,
                   mainVars, extractVars, clientVars>>

NextEval ==
    \/ CallSetConfig
    \/ CallEvaluateContributors
    \/ AwaitEvaluate
    \/ LoadRegexComplete
    \/ EvalRepo
    \/ EvalWriteSummary

SpecEval == InitEval /\ [][NextEval]_vars

-----------------------------------------------------------------------------
(* Specification of one extractContributors call *)

InitExtract ==
    /\ \E patterns \in RulePool : ServiceWith(patterns)
    /\ fsRepoList = NoRepoLists
    /\ fsCommits = NoCommits
    /\ MainNotStarted("extract")
    /\ x_ciSystem \in ExtractTags
    /\ x_commits \in SeqsUpTo(RecordPool(x_ciSystem), MaxCommits)
    /\ x_i = 0
    /\ contributorMap = <<>>
    /\ removedContributorMap = <<>>
    /\ x_pc = "running"

\* commits.forEach: the callback on the next record
ForEachCommit ==
    /\ x_pc = "running"
    /\ x_i < Len(x_commits)
    /\ LET st == tallyCommit([included |-> contributorMap,
                              removed |-> removedContributorMap, threw |-> FALSE],
                             x_commits[x_i + 1], x_ciSystem, regexPatterns)
       IN  /\ contributorMap' = st.included
           /\ removedContributorMap' = st.removed
           /\ x_pc' = IF st.threw THEN "threw" ELSE "running"
    /\ x_i' = x_i + 1
    /\ UNCHANGED <<x_ciSystem, x_commits, svcVars, mainVars, clientVars>>

\* return { contributors: Array.from(...), removedContributors: Array.from(...) }
ExtractReturn ==
    /\ x_pc = "running"
    /\ x_i = Len(x_commits)
    /\ x_pc' = "returned"
    /\ UNCHANGED <<x_ciSystem, x_commits, x_i, contributorMap, removedContributorMap,
                   svcVars, mainVars, clientVars>>

NextExtract == ForEachCommit \/ ExtractReturn

SpecExtract == InitExtract /\ [][NextExtract]_vars

-----------------------------------------------------------------------------
(* Claims about main and its EvaluationService (Spec) *)

\* The evaluateContributors call of the current system has resolved.
Evaluated == pc = "p2_eval" /\ ev.pc = "returned"

\* C1: when main hands a platform's config with a valid exclusion pattern to
\* setConfig and then evaluates with the tag it derives for that platform, no
\* contributor whose email matches the pattern is left in contributors.
C1_PatternAppliedOnEveryPlatform ==
    (Evaluated /\ Truthy(cur.config.regexPattern)
               /\ compiles(stripDelimiters(cur.config.regexPattern)))
        => \A i \in 1..Len(ev.contributors) :
               ~RegexTest(stripDelimiters(cur.config.regexPattern), ev.contributors[i].email)

\* Some commit record of the call in progress has been classified.
Classified ==
    \E j \in 1..Len(ev.repoContributors) :
        \/ ev.repoContributors[j].contributors # <<>>
        \/ ev.repoContributors[j].removedContributors # <<>>

\* C6: when the config names a regex file, the file's patterns are in the
\* platform's rule list before the first commit record of the platform is
\* classified: no record is classified while the load is in flight.
C6_FileRulesLoadedBeforeClassification ==
    (pc = "p2_eval" /\ Classified)
        => ~\E i \in 1..Len(pendingLoads) :
               pendingLoads[i].ciSystem = tagToLowerCase(cur.config.ciSystem)

\* C7: a run in 'Evaluate existing data only' mode ends without exit code 1,
\* has asked no platform for repositories or commits, and has evaluated every
\* platform whose stored list has an included repository and written the summary.
C7_EvaluateModeCompletes ==
    (mode = "evaluate" /\ pc \in {"done", "exit1"})
        => /\ pc = "done"
           /\ apiCalls = {}
           /\ systems # <<>> => fsSummary.exists
           /\ \A i \in 1..Len(systems) :
                 summary.selectedRepos[summaryField(systemTag(systems[i].name))]
                     = Len(systems[i].repos)

\* C10: whenever evaluateContributors has returned to main, and when main is
\* done, scm_summary.xlsx holds the summary with every platform folded so far,
\* the platform just evaluated included; main writes it at no other step.
C10_SummaryWrittenAfterEachPlatform ==
    (pc \in {"p2_next", "done"} /\ sysIdx > 0)
        => /\ fsSummary.exists
           /\ fsSummary.summary = summary
           /\ fsSummary.summary.contributors[summaryField(evaluation.system)]
                  = Len(evaluation.contributors)
           /\ fsSummary.summary.selectedRepos[summaryField(evaluation.system)]
                  = Len(includedRepos)

\* Two platforms have been evaluated and the written summary counts both.
C10_Witness ==
    /\ pc = "p2_next"
    /\ sysIdx = 2
    /\ fsSummary.summary.contributors.github > 0
    /\ fsSummary.summary.contributors.gitlab > 0
    /\ fsSummary.summary.totalUniqueContributors
           = fsSummary.summary.contributors.github + fsSummary.summary.contributors.gitlab

-----------------------------------------------------------------------------
(* Claims about the EvaluationService under any calls (SpecEval) *)

C9_CountersReplaced ==
    [][(ev.pc # "write" /\ ev'.pc = "write")
         => LET f == summaryField(ev'.ciSystem)
            IN  /\ f = "none" => summary' = summary
                /\ f # "none" =>
                      /\ summary'.contributors[f] = Len(ev'.contributors)
                      /\ summary'.selectedRepos[f] = Len(ev'.repos)
                      /\ summary'.totalRepos[f] = Len(ev'.repos)
                      /\ \A g \in {"gitlab", "github", "azureDevOps"} \ {f} :
                            /\ summary'.contributors[g] = summary.contributors[g]
                            /\ summary'.selectedRepos[g] = summary.selectedRepos[g]
                            /\ summary'.totalRepos[g] = summary.totalRepos[g]]_vars

\* The same repositories of the same platform were evaluated twice with a
\* contributor found, and the counters are those of one evaluation.
C9_Witness ==
    /\ ev.pc = "returned"
    /\ evaluation.system = ev.ciSystem
    /\ evaluation.repos = ev.repos
    /\ evaluation.contributors = ev.contributors
    /\ Len(ev.contributors) > 0
    /\ summaryField(ev.ciSystem) # "none"
    /\ summary.contributors[summaryField(ev.ciSystem)] = Len(ev.contributors)
    /\ summary.selectedRepos[summaryField(ev.ciSystem)] = Len(ev.repos)

-----------------------------------------------------------------------------
(* Claims about extractContributors (SpecExtract) *)

\* The identity key a record normalizes to under the platform's shape, <<>>
\* for a record that has none.
recordKey(commit, ciSystem) ==
    LET f == authorFields(commit, ciSystem)
    IN  IF f.kind # "ok" \/ ~Truthy(f.name) THEN <<>>
        ELSE IF ~Truthy(f.email) THEN f.name \o <<":">>
        ELSE f.name \o <<":">> \o toLowerCase(f.email)

Occurrences(key) ==
    Cardinality({i \in 1..Len(x_commits) : recordKey(x_commits[i], x_ciSystem) = key})

EntriesWithKey(m, key) ==
    Cardinality({i \in 1..Len(m) : m[i].name \o <<":">> \o m[i].email = key})

\* C2: every contributor extractContributors returns has a commits value equal
\* to the number of input records that normalize to its identity key.
C2_CountIsNumberOfRecords ==
    x_pc = "returned" =>
        /\ \A i \in 1..Len(contributorMap) :
              contributorMap[i].commits
                  = Occurrences(contributorMap[i].name \o <<":">> \o contributorMap[i].email)
        /\ \A i \in 1..Len(removedContributorMap) :
              removedContributorMap[i].commits
                  = Occurrences(removedContributorMap[i].name \o <<":">>
                                    \o removedContributorMap[i].email)

\* C3: every identity with a non-empty email that occurs in the input occurs
\* exactly once in the two returned lists together.
C3_ExactlyOneBucket ==
    x_pc = "returned" =>
        \A i \in 1..Len(x_commits) :
            LET f == authorFields(x_commits[i], x_ciSystem)
            IN  (f.kind = "ok" /\ Truthy(f.name) /\ Truthy(f.email))
                    => EntriesWithKey(contributorMap, recordKey(x_commits[i], x_ciSystem))
                         + EntriesWithKey(removedContributorMap,
                                          recordKey(x_commits[i], x_ciSystem)) = 1

\* The record has a non-empty name and an absent or empty email.
NameOnly(commit, ciSystem) ==
    LET f == authorFields(commit, ciSystem)
    IN  f.kind = "ok" /\ Truthy(f.name) /\ ~Truthy(f.email)

commitsUnder(m, key) == IF mapHas(m, key) THEN m[mapIndex(m, key)].commits ELSE 0

C5_NoException == x_pc # "threw"

-----------------------------------------------------------------------------
(* Claims about the result of evaluateContributors (SpecEval) *)

keyOf(c) == c.name \o <<":">> \o c.email

KeysOnce(list) ==
    \A i, j \in 1..Len(list) : keyOf(list[i]) = keyOf(list[j]) => i = j

HasKey(list, c) == \E i \in 1..Len(list) : keyOf(list[i]) = keyOf(c)

\* C11: in the result of evaluateContributors every identity key occurs at
\* most once in the platform's contributors and at most once in its removed
\* contributors, and every entry of a repository's lists has its key in the
\* platform's list of the same kind.
C11_PlatformListsDeduplicated ==
    ev.pc \in {"write", "returned"} =>
        /\ KeysOnce(ev.contributors)
        /\ KeysOnce(ev.removedContributors)
        /\ \A r \in 1..Len(ev.repoContributors) :
              /\ \A i \in 1..Len(ev.repoContributors[r].contributors) :
                    HasKey(ev.contributors, ev.repoContributors[r].contributors[i])
              /\ \A i \in 1..Len(ev.repoContributors[r].removedContributors) :
                    HasKey(ev.removedContributors,
                           ev.repoContributors[r].removedContributors[i])

\* Two repositories were evaluated, one contributor is in the lists of both
\* and the platform's list has more than that one entry.
C11_Witness ==
    /\ ev.pc = "returned"
    /\ Len(ev.repoContributors) = 2
    /\ \E i \in 1..Len(ev.repoContributors[1].contributors) :
          HasKey(ev.repoContributors[2].contributors,
                 ev.repoContributors[1].contributors[i])
    /\ Len(ev.contributors) = 3

-----------------------------------------------------------------------------
(* Further claims about extractContributors (SpecExtract) *)

Recognized(ciSystem) == tagToLowerCase(ciSystem) \in {"github", "gitlab", "azuredevops"}

\* C12: under a tag outside github, gitlab and azuredevops (compared without
\* regard to case) extractContributors tallies nothing and raises no
\* exception, whatever the records are.
C12_UnknownTagReturnsEmpty ==
    ~Recognized(x_ciSystem) =>
        /\ contributorMap = <<>>
        /\ removedContributorMap = <<>>
        /\ x_pc # "threw"

\* A call under the tag Bitbucket has returned after a pass over a record with
\* flat identity fields, a record with an author object and a record with neither.
C12_Witness ==
    /\ x_pc = "returned"
    /\ x_ciSystem = "Bitbucket"
    /\ \E i, j, k \in 1..Len(x_commits) :
          /\ x_commits[i] = Flat(<<"a">>, u_m)
          /\ x_commits[j] = ByAuthor(<<"b">>, v_c)
          /\ x_commits[k] = EmptyRecord

-----------------------------------------------------------------------------
(* Specification of two extractContributors calls on one EvaluationService:
   the calls evaluateContributors makes for two repositories with the same
   commits.json, after one setConfig call *)

RepeatPool(ciSystem) ==
    LET dir == tagToLowerCase(ciSystem)
    IN  {stored(dir, <<"a">>, U_M), stored(dir, <<"b">>, v_c), EmptyRecord}

InitRepeat ==
    /\ \E config \in CallerConfigs :
          /\ regexPatterns = setConfigPatterns(NoPatterns, config)
          /\ pendingLoads = setConfigLoads(<<>>, config)
    /\ summary = NewSummary
    /\ ev = Idle
    /\ evaluation = NoEvaluation
    /\ calls = 0
    /\ fsSummary = NoWorkbook
    /\ fsRepoList = NoRepoLists
    /\ fsCommits = NoCommits
    /\ MainNotStarted("repeat")
    /\ x_ciSystem \in EvalTags
    /\ x_commits \in SeqsUpTo(RepeatPool(x_ciSystem), MaxCommits)
    /\ x_i = 0
    /\ contributorMap = <<>>
    /\ removedContributorMap = <<>>
    /\ x_pc = "running"

\* The result of the first call is kept and the second call begins.
ExtractAgain ==
    /\ x_pc = "returned"
    /\ calls = 0
    /\ calls' = 1
    /\ evaluation' = [NoEvaluation EXCEPT !.system = x_ciSystem,
                         !.contributors = mapValues(contributorMap),
                         !.removedContributors = mapValues(removedContributorMap)]
    /\ contributorMap' = <<>>
    /\ removedContributorMap' = <<>>
    /\ x_i' = 0
    /\ x_pc' = "running"
    /\ UNCHANGED <<regexPatterns, pendingLoads, summary, ev, fsCommits, fsSummary,
                   mainVars, x_ciSystem, x_commits, clientVars>>

\* extractContributors is synchronous: a file read resolves between two calls only.
LoadBetweenCalls ==
    /\ x_pc # "running"
    /\ LoadRegexComplete

NextRepeat ==
    \/ ForEachCommit
    \/ ExtractReturn
    \/ ExtractAgain
    \/ LoadBetweenCalls

SpecRepeat == InitRepeat /\ [][NextRepeat]_vars

\* C13: the second of two extractContributors calls with the same records and
\* the same tag on one EvaluationService returns the contributors and removed
\* contributors the first returned.
C13_SecondCallSameResult ==
    (x_pc = "returned" /\ calls = 1) =>
        /\ mapValues(contributorMap) = evaluation.contributors
        /\ mapValues(removedContributorMap) = evaluation.removedContributors

-----------------------------------------------------------------------------
(* Specification of one rule given in its two forms: setConfig for GitHub
   with the delimited form and for GitLab with the bare form, as the single
   pattern or as the one line of a regex file *)

a_c == <<"a", "@", "c">>

EmailPool == {U_M, u_m, v_c, a_c}

ruleConfig(ciSystem, b, k, fromFile) ==
    [ciSystem |-> ciSystem,
     regexPattern |-> IF fromFile THEN Undefined ELSE ruleForm(b, k),
     regexFile |-> IF fromFile THEN ruleFile(b, k) ELSE "",
     forceReload |-> FALSE]

InitRule ==
    /\ ServiceNew
    /\ fsRepoList = NoRepoLists
    /\ fsCommits = NoCommits
    /\ ClientsIdle
    /\ pc = "rule"
    /\ mode = "unset"
    /\ \E b \in 1..Len(Bodies) : \E k \in 1..Len(FlagSets) : \E fromFile \in BOOLEAN :
          systems = << [NoSystem EXCEPT !.name = "GitHub",
                                        !.config = ruleConfig("GitHub", b, k, fromFile)],
                       [NoSystem EXCEPT !.name = "GitLab",
                                        !.config = ruleConfig("GitLab", b, 0, fromFile)] >>
    /\ cur = NoSystem
    /\ sysIdx = 0
    /\ includedRepos = <<>>
    /\ fetchIdx = 0
    /\ apiCalls = {}
    /\ x_ciSystem = ""
    /\ \E email \in EmailPool : x_commits = <<Flat(<<"n">>, email)>>
    /\ x_i = 0
    /\ contributorMap = <<>>
    /\ removedContributorMap = <<>>
    /\ x_pc = "idle"

\* evaluationService.setConfig(config) for the next system
RuleSetConfig ==
    /\ pc = "rule"
    /\ sysIdx < Len(systems)
    /\ sysIdx' = sysIdx + 1
    /\ cur' = systems[sysIdx + 1]
    /\ SetConfig(systems[sysIdx + 1].config)
    /\ UNCHANGED <<summary, ev, evaluation, calls, fsCommits, fsSummary, fsRepoList, pc, mode,
                   systems, includedRepos, fetchIdx, apiCalls, extractVars, clientVars>>

NextRule == RuleSetConfig \/ LoadRegexComplete

SpecRule == InitRule /\ [][NextRule]_vars

\* C14: once both forms of a rule are loaded, the delimited form '/p/flags'
\* and the bare form 'p' classify an email identically, as the body p matched
\* without regard to letter case does, from the single pattern and from the
\* regex file alike.
C14_DelimitedAndBareClassifyAlike ==
    (pc = "rule" /\ sysIdx = Len(systems) /\ pendingLoads = <<>>) =>
        LET email == toLowerCase(x_commits[1].author_email)
        IN  isExcludedEmail(email, "GitHub", regexPatterns)
                = isExcludedEmail(email, "GitLab", regexPatterns)

-----------------------------------------------------------------------------
(* Claims about the rule lists of the EvaluationService (SpecEval) *)

InList(list, p) == \E i \in 1..Len(list) : list[i] = p

\* The patterns of a config that compile: its single pattern and the
\* non-blank lines of its regex file, cleaned of their delimiters.
validPatterns(config) ==
    LET single == IF Truthy(config.regexPattern)
                  THEN {stripDelimiters(config.regexPattern)} ELSE {}
        content == IF config.regexFile # "" THEN fsRegex(config.regexFile).content ELSE <<>>
        lines == {stripDelimiters(content[i]) :
                     i \in {j \in 1..Len(content) : ~isBlank(content[j])}}
    IN  {p \in single \cup lines : compiles(p)}

\* C15: a pattern that does not compile is dropped alone. Once the file read
\* of the config last given to setConfig has resolved, every pattern of that
\* config that compiles is in the platform's rule list, whether the pattern
\* that does not compile is the single pattern or a line of the file; no rule
\* list holds a pattern that does not compile, and setConfig returned.
C15_InvalidPatternDroppedAlone ==
    /\ pc = "caller"
    /\ \A k \in PatternKeys : \A i \in 1..Len(regexPatterns[k].list) :
          compiles(regexPatterns[k].list[i])
    /\ (cur.config.ciSystem # "undefined" /\ pendingLoads = <<>>) =>
          \A p \in validPatterns(cur.config) :
              InList(regexPatterns[tagToLowerCase(cur.config.ciSystem)].list, p)

\* The config last set has a single pattern that does not compile and a file
\* whose first line does not compile; the two valid lines of the file are the
\* platform's rule list.
C15_Witness ==
    /\ cur.config.regexPattern = <<"(">>
    /\ cur.config.regexFile = "mixed.txt"
    /\ pendingLoads = <<>>
    /\ regexPatterns["gitlab"].list = << <<"c", "$">>, <<"m", "$">> >>

-----------------------------------------------------------------------------
(* Claims about identities in extractContributors (SpecExtract) *)

\* The entries of the two maps that stand for the name without an email.
NameOnlyEntries(name) ==
    Cardinality({i \in 1..Len(contributorMap) :
                    contributorMap[i].name = name /\ ~Truthy(contributorMap[i].email)})
      + Cardinality({i \in 1..Len(removedContributorMap) :
                    removedContributorMap[i].name = name
                        /\ ~Truthy(removedContributorMap[i].email)})

NameOnlyRecords(name) ==
    Cardinality({i \in 1..Len(x_commits) :
                    /\ NameOnly(x_commits[i], x_ciSystem)
                    /\ authorFields(x_commits[i], x_ciSystem).name = name})

Identified(commit, ciSystem) ==
    LET f == authorFields(commit, ciSystem)
    IN  f.kind = "ok" /\ Truthy(f.name) /\ Truthy(f.email)

\* The returned entries with this name whose email is this one in some letter case
EntriesOf(name, email) ==
    {<<"contributors", i>> : i \in {k \in 1..Len(contributorMap) :
          /\ contributorMap[k].name = name
          /\ toLowerCase(contributorMap[k].email) = toLowerCase(email)}}
      \cup {<<"removedContributors", i>> : i \in {k \in 1..Len(removedContributorMap) :
          /\ removedContributorMap[k].name = name
          /\ toLowerCase(removedContributorMap[k].email) = toLowerCase(email)}}

entryAt(e) == IF e[1] = "contributors" THEN contributorMap[e[2]] ELSE removedContributorMap[e[2]]

\* C17: two records of one name whose emails differ only in letter case are
\* returned as one contributor, stored with the lower-case email and counted
\* for both; two records of one email whose names differ in letter case are
\* returned as two contributors.
C17_EmailCaseFoldedNameCaseKept ==
    x_pc = "returned" =>
        \A i, j \in 1..Len(x_commits) :
            (Identified(x_commits[i], x_ciSystem) /\ Identified(x_commits[j], x_ciSystem)) =>
                LET f == authorFields(x_commits[i], x_ciSystem)
                    g == authorFields(x_commits[j], x_ciSystem)
                IN  /\ (f.name = g.name /\ f.email # g.email
                           /\ toLowerCase(f.email) = toLowerCase(g.email))
                         => /\ Cardinality(EntriesOf(f.name, f.email)) = 1
                            /\ \A e \in EntriesOf(f.name, f.email) :
                                  /\ entryAt(e).email = toLowerCase(f.email)
                                  /\ entryAt(e).commits >= 2
                    /\ (f.name # g.name /\ toLowerCase(f.name) = toLowerCase(g.name)
                           /\ toLowerCase(f.email) = toLowerCase(g.email))
                         => /\ Cardinality(EntriesOf(f.name, f.email)) = 1
                            /\ Cardinality(EntriesOf(g.name, g.email)) = 1
                            /\ EntriesOf(f.name, f.email) # EntriesOf(g.name, g.email)

\* A pass over a with U@M, a with u@m and A with u@m returned a / u@m with
\* count 2 and A / u@m with count 1.
C17_Witness ==
    /\ x_pc = "returned"
    /\ x_ciSystem = "AzureDevOps"
    /\ x_commits = <<ByAuthor(<<"a">>, U_M), ByAuthor(<<"a">>, u_m), ByAuthor(<<"A">>, u_m)>>
    /\ removedContributorMap = <<>>
    /\ mapValues(contributorMap)
           = << [name |-> <<"a">>, email |-> u_m, commits |-> 2],
                [name |-> <<"A">>, email |-> u_m, commits |-> 1] >>

-----------------------------------------------------------------------------
(* Claims about missing commit files (SpecEval) *)

\* contributors/<system>/<repo>/commits.json cannot be read
CommitsMissing(ciSystem, repo) ==
    LET dir == tagToLowerCase(ciSystem)
    IN  dir \notin Dirs \/ ~fsCommits[dir][repo].exists

\* C18: a repository whose commits.json cannot be read has empty lists in the
\* result, the call is not rejected because of it, and the call ends with an
\* entry for every repository, the readable ones with their contributors.
C18_MissingCommitsAreEmpty ==
    /\ ev.pc # "rejected"
    /\ \A r \in 1..Len(ev.repoContributors) :
          /\ ev.repoContributors[r].repo = ev.repos[r]
          /\ CommitsMissing(ev.ciSystem, ev.repos[r]) =>
                /\ ev.repoContributors[r].contributors = <<>>
                /\ ev.repoContributors[r].removedContributors = <<>>
    /\ ev.pc \in {"write", "returned"} =>
          /\ Len(ev.repoContributors) = Len(ev.repos)
          /\ \A r \in 1..Len(ev.repos) :
                ~CommitsMissing(ev.ciSystem, ev.repos[r]) =>
                    Len(ev.repoContributors[r].contributors)
                        + Len(ev.repoContributors[r].removedContributors) > 0

\* A call for GitHub returned: the first repository has no commits.json and
\* empty lists, the second one was evaluated after it and has two identities.
C18_Witness ==
    /\ ev.pc = "returned"
    /\ ev.ciSystem = "GitHub"
    /\ ev.repos = <<"o/r2", "o/r1">>
    /\ ~fsCommits["github"]["o/r2"].exists
    /\ ev.repoContributors[1].contributors = <<>>
    /\ ev.repoContributors[1].removedContributors = <<>>
    /\ Len(ev.contributors) + Len(ev.removedContributors) = 2

-----------------------------------------------------------------------------
(* Claims about the repository selection (Spec) *)

\* The rows the user left marked 'Y' at the last review of the platform's list
LastSaved(ciSystemName) ==
    LET reviews == {i \in 1..Len(systems) : systems[i].name = ciSystemName}
    IN  IF reviews = {} THEN {}
        ELSE systems[CHOOSE i \in reviews : \A j \in reviews : j <= i].saved

\* C19: in phase 2 of a fetch run, with force reload off or on, every
\* repository of the list main fetches and evaluates, and every repository
\* whose commits were requested, is marked 'Y' in the platform's list as the
\* user saved it at the review.
C19_OnlyMarkedRepositoriesProcessed ==
    (mode = "fetch" /\ pc \in {"p2_fetch", "p2_eval"}) =>
        /\ \A i \in 1..Len(includedRepos) : includedRepos[i] \in LastSaved(cur.name)
        /\ \A call \in apiCalls :
              call.op = "getCommits" => call.repo \in LastSaved(call.system)

\* C20: in phase 1 of a fetch run the platform chosen, GitHub, GitLab or
\* Azure DevOps, gets past the client's setConfig to getRepos and
\* writeRepoList, also when its repositories file does not exist yet: the run
\* does not end with exit code 1 there, and at the review the file holds the
\* fetched list.
C20_FirstRunCreatesSelectionFile ==
    (mode = "fetch" /\ sysIdx = 0 /\ cur.name # "") =>
        /\ pc # "exit1"
        /\ pc = "p1_review" =>
              fsRepoList[systemDir(cur.name)] = writeRepoList(serverRepos(cur.name))

-----------------------------------------------------------------------------
(* Claims about the fetch loop of main (Spec) *)

\* The iteration of the fetch loop for the next included repository
FetchStep == pc = "p2_fetch" /\ fetchIdx' = fetchIdx + 1

NextRepo == includedRepos[fetchIdx + 1]

\* C21: the iteration of the fetch loop for a repository marked 'Y' that has
\* no commits.json requests the commits from the platform, and what it stores
\* is what the platform returned, whenever the repository was marked.
C21_MarkedRepositoryIsRequested ==
    [][(FetchStep /\ ~fsCommits[systemDir(cur.name)][NextRepo].exists)
         => /\ [op |-> "getCommits", system |-> cur.name, repo |-> NextRepo] \in apiCalls'
            /\ fsCommits'[systemDir(cur.name)][NextRepo].exists
                  => \/ fsCommits'[systemDir(cur.name)][NextRepo].content
                           \in getCommits(cur.name, history(systemDir(cur.name), NextRepo))
                     \/ /\ cur.name = "GitLab"
                        /\ fsCommits'[systemDir(cur.name)][NextRepo].content = <<>>]_vars

-----------------------------------------------------------------------------
(* AzureDevOpsSystem.getContributors: the paging loop over the commits of a repository *)

MaxPages == 2
MaxPageSize == 2

\* The commits the platform holds for a repository, as it splits them into pages
AzureIdPool == { <<(<<"a">>), u_m>>, <<(<<"b">>), v_c>>, <<(<<"d">>), v_c>> }

AzureCommitPool == { ByAuthor(id[1], id[2]) : id \in AzureIdPool }

AzurePages ==
    { pages \in SeqsUpTo(SeqsUpTo(AzureCommitPool, MaxPageSize), MaxPages) : Len(pages) > 0 }

InitPaging ==
    /\ \E patterns \in RulePool : ServiceWith(patterns)
    /\ fsRepoList = NoRepoLists
    /\ fsCommits = NoCommits
    /\ pc = "paging"
    /\ mode = "unset"
    /\ systems = <<>>
    /\ cur = NoSystem
    /\ sysIdx = 0
    /\ includedRepos = <<>>
    /\ fetchIdx = 0
    /\ apiCalls = {}
    /\ ExtractIdle
    /\ \E pages \in AzurePages :
          azure = [pc |-> "loop", pages |-> pages, page |-> 0, commits |-> <<>>]
    /\ storage = NoStoreCall
    /\ request = NoRequest
    /\ errors = {}

\* One iteration of the do-while loop: the next page is fetched, its commits
\* by authors not collected before are pushed, the continuation token is kept.
FetchCommitsPage ==
    /\ azure.pc = "loop"
    /\ azure.page < Len(azure.pages)
    /\ azure' = [azure EXCEPT
                    !.commits = @ \o newCommits(@, azure.pages[azure.page + 1]),
                    !.page = @ + 1,
                    !.pc = IF azure.page + 1 < Len(azure.pages) THEN "loop" ELSE "done"]
    /\ UNCHANGED <<svcVars, mainVars, extractVars, storage, request, errors>>

\* return commits
GetContributorsReturn ==
    /\ azure.pc = "done"
    /\ azure' = [azure EXCEPT !.pc = "returned"]
    /\ UNCHANGED <<svcVars, mainVars, extractVars, storage, request, errors>>

NextPaging == FetchCommitsPage \/ GetContributorsReturn

SpecPaging == InitPaging /\ [][NextPaging]_vars

RECURSIVE Flatten(_)
Flatten(pages) == IF pages = <<>> THEN <<>> ELSE Head(pages) \o Flatten(Tail(pages))

CommitsBy(commits, name, email) ==
    Cardinality({k \in 1..Len(commits) :
                    recordKey(commits[k], "AzureDevOps") = name \o <<":">> \o email})

\* C22: for an Azure DevOps repository the commits value tallied for a
\* contributor is the number of commits by that author on all the pages the
\* platform returned, however the commits are split into pages.
C22_CountIndependentOfPaging ==
    azure.pc = "returned" =>
        LET r == extractContributors(azure.commits, "AzureDevOps", regexPatterns)
            all == r.included \o r.removed
        IN  \A k \in 1..Len(all) :
               all[k].commits = CommitsBy(Flatten(azure.pages), all[k].name, all[k].email)

-----------------------------------------------------------------------------
(* Claims about the report workbook *)

Sheet(tabName) == {sh \in fsSummary.sheets : sh.name = tabName}

TabOf(ciSystem) ==
    CASE summaryField(ciSystem) = "gitlab" -> "GitLab Details"
      [] summaryField(ciSystem) = "github" -> "GitHub Details"
      [] summaryField(ciSystem) = "azureDevOps" -> "Azure DevOps Details"
      [] OTHER -> ""

\* C23: once evaluateContributors has returned for a platform with at least
\* one included or one removed contributor, the workbook holds the platform's
\* details sheet and its removed-contributors sheet.
C23_PlatformWithContributorsHasSheets ==
    (/\ ev.pc = "returned"
     /\ Recognized(ev.ciSystem)
     /\ ev.contributors # <<>> \/ ev.removedContributors # <<>>)
        => /\ Sheet(TabOf(ev.ciSystem)) # {}
           /\ Sheet(TabOf(ev.ciSystem) \o " - Removed") # {}

-----------------------------------------------------------------------------
(* Claims about the platform's counter and the platform-level lists (SpecEval) *)

\* The identity keys of the included contributors of the repositories evaluated
IncludedKeys ==
    UNION { { keyOf(ev.repoContributors[r].contributors[i]) :
                  i \in 1..Len(ev.repoContributors[r].contributors) } :
            r \in 1..Len(ev.repoContributors) }

RemovedKeys ==
    UNION { { keyOf(ev.repoContributors[r].removedContributors[i]) :
                  i \in 1..Len(ev.repoContributors[r].removedContributors) } :
            r \in 1..Len(ev.repoContributors) }

\* C24: when evaluateContributors(repos, P) has returned for a recognized
\* platform P, P's contributor counter in the summary is the number of distinct
\* identity keys of the included contributors of the given repositories; the
\* removed contributors are not counted.
C24_CounterIsDistinctIncludedKeys ==
    (ev.pc = "returned" /\ Recognized(ev.ciSystem))
        => /\ Len(ev.repoContributors) = Len(ev.repos)
           /\ summary.contributors[summaryField(ev.ciSystem)] = Cardinality(IncludedKeys)

\* Two repositories share an included contributor, a further contributor is
\* removed only, and the counter is 2.
C24_Witness ==
    /\ ev.pc = "returned"
    /\ Recognized(ev.ciSystem)
    /\ Len(ev.repos) = 2
    /\ \E k \in IncludedKeys :
          \A r \in 1..2 : \E i \in 1..Len(ev.repoContributors[r].contributors) :
              keyOf(ev.repoContributors[r].contributors[i]) = k
    /\ RemovedKeys \ IncludedKeys # {}
    /\ summary.contributors[summaryField(ev.ciSystem)] = 2

-----------------------------------------------------------------------------
(* FileStorageService.storeCommits: the steps of one call *)

\* A file that holds a JSON text: all of it, or the part a failed write left
Absent == [exists |-> FALSE, complete |-> FALSE, content |-> <<>>]
Json(commits) == [exists |-> TRUE, complete |-> TRUE, content |-> commits]
Truncated == [exists |-> TRUE, complete |-> FALSE, content |-> <<>>]

StoredPool == { ByAuthor(<<"a">>, u_m), Flat(<<"b">>, v_c), EmptyRecord }

\* The argument commits: an array, or a value Array.isArray rejects
StoreArgs ==
    { [isArray |-> TRUE, value |-> c] : c \in SeqsUpTo(StoredPool, MaxCommits) }
        \cup { [isArray |-> FALSE, value |-> <<>>] }

InitStore ==
    /\ ServiceNew
    /\ fsRepoList = NoRepoLists
    /\ fsCommits = NoCommits
    /\ pc = "store"
    /\ mode = "unset"
    /\ systems = <<>>
    /\ cur = NoSystem
    /\ sysIdx = 0
    /\ includedRepos = <<>>
    /\ fetchIdx = 0
    /\ apiCalls = {}
    /\ ExtractIdle
    /\ azure = NoAzureCall
    /\ request = NoRequest
    /\ errors = {}
    /\ \E commits \in StoreArgs :
       \E file \in {Absent, Json(<<>>), Json(<<Flat(<<"d">>, v_c)>>)} :
       \E temp \in {Absent, Truncated} :
          storage = [pc |-> "called", commits |-> commits, file |-> file, temp |-> temp,
                     previous |-> file, previousTemp |-> temp, failedAt |-> "", unlinkAttempted |-> FALSE]

StoreUnchanged == UNCHANGED <<svcVars, mainVars, extractVars, azure, request, errors>>

\* if (!Array.isArray(commits)) { console.error(...); return; }
StoreCheckArray ==
    /\ storage.pc = "called"
    /\ storage' = [storage EXCEPT !.pc = IF storage.commits.isArray THEN "mkdir" ELSE "returned"]
    /\ StoreUnchanged

\* The two fs.mkdir calls, outside the try block
StoreMkdir ==
    /\ storage.pc = "mkdir"
    /\ \/ storage' = [storage EXCEPT !.pc = "write"]
       \/ storage' = [storage EXCEPT !.pc = "threw", !.failedAt = "mkdir"]
    /\ StoreUnchanged

\* The write made to commits.json itself
StoreWriteInPlace ==
    /\ storage.pc = "write"
    /\ \/ storage' = [storage EXCEPT !.pc = "verify", !.file = Json(storage.commits.value),
                                     !.temp = Json(storage.commits.value)]
       \/ \E left \in {storage.file, Truncated} :
             storage' = [storage EXCEPT !.pc = "cleanup", !.failedAt = "write", !.file = left]
    /\ StoreUnchanged

\* await fs.writeFile(tempFilePath, JSON.stringify(commits, null, 2))
StoreWriteTemp ==
    /\ storage.pc = "write"
    /\ \/ storage' = [storage EXCEPT !.pc = "verify", !.temp = Json(storage.commits.value)]
       \/ \E left \in {storage.temp, Truncated} :
             storage' = [storage EXCEPT !.pc = "cleanup", !.failedAt = "write", !.temp = left]
    /\ StoreUnchanged

\* readFile of the temp file, JSON.parse and the Array.isArray check of the result
StoreVerify ==
    /\ storage.pc = "verify"
    /\ \/ /\ storage.temp.complete
          /\ storage' = [storage EXCEPT !.pc = "rename"]
       \/ storage' = [storage EXCEPT !.pc = "cleanup", !.failedAt = "verify"]
    /\ StoreUnchanged

\* await fs.rename(tempFilePath, filePath)
StoreRename ==
    /\ storage.pc = "rename"
    /\ \/ storage' = [storage EXCEPT !.pc = "returned", !.file = storage.temp, !.temp = Absent]
       \/ storage' = [storage EXCEPT !.pc = "cleanup", !.failedAt = "rename"]
    /\ StoreUnchanged

\* catch: try { await fs.unlink(tempFilePath) } catch {}; throw error
StoreCleanup ==
    /\ storage.pc = "cleanup"
    /\ \E left \in {Absent, storage.temp} :
          storage' = [storage EXCEPT !.pc = "threw", !.temp = left, !.unlinkAttempted = TRUE]
    /\ StoreUnchanged

NextStore ==
    \/ StoreCheckArray
    \/ StoreMkdir
    \/ StoreWriteTemp
    \/ StoreVerify
    \/ StoreRename
    \/ StoreCleanup

SpecStore == InitStore /\ [][NextStore]_vars

\* C25: commits.json is never partially written: at every point of a call it
\* is as it was before or holds the whole new array; a call that failed at the
\* temp write, the read-back or the rename has left it as it was, has attempted
\* to remove the temp file and rethrows; a call with an argument that is not an
\* array returns without an error and without writing anything.
C25_CommitsFileReplacedAtomically ==
    /\ storage.file = storage.previous
          \/ (storage.commits.isArray /\ storage.file = Json(storage.commits.value))
    /\ storage.failedAt \in {"write", "verify", "rename"}
          => /\ storage.file = storage.previous
             /\ storage.pc \in {"cleanup", "threw"}
             /\ storage.pc = "threw" => storage.unlinkAttempted
    /\ storage.pc = "returned" /\ storage.commits.isArray
          => storage.file = Json(storage.commits.value)
    /\ ~storage.commits.isArray
          => /\ storage.pc \in {"called", "returned"}
             /\ storage.file = storage.previous
             /\ storage.temp = storage.previousTemp

\* A call with a new array has failed at the rename and has rethrown with the
\* previous commits.json in place.
C25_Witness ==
    /\ storage.pc = "threw"
    /\ storage.failedAt = "rename"
    /\ storage.previous = Json(<<Flat(<<"d">>, v_c)>>)
    /\ storage.commits.value # <<>>
    /\ storage.file = storage.previous


\* C26: with force reload off, the iteration of the fetch loop for a repository
\* whose commits.json exists makes no request for its commits and leaves the
\* stored files as they are, and the evaluation that follows the loop is called
\* with every included repository.
C26_ExistingFileSkipped ==
    /\ [][(FetchStep /\ ~cur.config.forceReload
                     /\ fsCommits[systemDir(cur.name)][NextRepo].exists)
            => /\ apiCalls' = apiCalls
               /\ fsCommits' = fsCommits
               /\ errors' = errors]_vars
    /\ [](pc = "p2_eval" => ev.repos = includedRepos)

\* The fetch loop has passed o/r1, whose commits.json an earlier run left, without
\* a request, and the evaluation of the platform has o/r1 among its repositories.
C26_Witness ==
    /\ pc = "p2_eval"
    /\ mode = "fetch"
    /\ ~cur.config.forceReload
    /\ includedRepos # <<>>
    /\ includedRepos[1] = "o/r1"
    /\ fsCommits[systemDir(cur.name)]["o/r1"] = File(history(systemDir(cur.name), "o/r1"))
    /\ [op |-> "getCommits", system |-> cur.name, repo |-> "o/r1"] \notin apiCalls
    /\ "o/r1" \in cur.clientIncluded
    /\ ev.pc = "returned"
    /\ ev.repoContributors[1].repo = "o/r1"

-----------------------------------------------------------------------------
(* fetchGitLab and fetchAzureDevOps: one top-level call with its retries *)

maxRetries == 3

\* What one HTTP request may end in: a response that is ok with a JSON body or
\* with a body response.json() rejects, a 401, a response that is not ok with
\* or without a Retry-After header, or a rejected fetch
Outcomes == {"ok", "badBody", "401", "retryAfter", "notOk", "fetchFailed"}

Failures == Outcomes \ {"ok", "badBody"}

InitRequest ==
    /\ ServiceNew
    /\ fsRepoList = NoRepoLists
    /\ fsCommits = NoCommits
    /\ pc = "request"
    /\ mode = "unset"
    /\ systems = <<>>
    /\ cur = NoSystem
    /\ sysIdx = 0
    /\ includedRepos = <<>>
    /\ fetchIdx = 0
    /\ apiCalls = {}
    /\ ExtractIdle
    /\ azure = NoAzureCall
    /\ storage = NoStoreCall
    /\ errors = {}
    /\ \E client \in {"GitLab", "AzureDevOps"} :
          request = [pc |-> "called", client |-> client, retryCount |-> 0, requests |-> 0,
                     responses |-> <<>>]

RequestUnchanged == UNCHANGED <<svcVars, mainVars, extractVars, azure, storage, errors>>

\* const response = await fetch(...): the request is sent
SendRequest ==
    /\ request.pc = "called"
    /\ request' = [request EXCEPT !.pc = "awaiting", !.requests = @ + 1]
    /\ RequestUnchanged

\* The request completes with a rate-limit retry that leaves retryCount as it is
RequestCompletesRetryAfterUncounted ==
    /\ request.pc = "awaiting"
    /\ \E outcome \in Outcomes :
          request' =
              [request EXCEPT
                  !.responses = Append(@, outcome),
                  !.retryCount = IF outcome = "retryAfter" THEN @
                                 ELSE IF outcome \in Failures /\ @ < maxRetries THEN @ + 1
                                 ELSE @,
                  !.pc = CASE outcome = "ok" -> "returned"
                           [] outcome = "badBody" -> "rejected"
                           [] outcome = "retryAfter" -> "called"
                           [] OTHER -> IF request.retryCount < maxRetries
                                       THEN "called" ELSE "rejected"]
    /\ RequestUnchanged

\* The request completes: return response.json(), or the throw of a 401 or of an
\* API error and the catch with its retry, or the retry after a rate limit; the
\* call made for a retry is returned without await, so its rejection is the
\* rejection of this call.
RequestCompletes ==
    /\ request.pc = "awaiting"
    /\ \E outcome \in Outcomes :
          request' =
              [request EXCEPT
                  !.responses = Append(@, outcome),
                  !.retryCount = IF outcome \in Failures /\ @ < maxRetries THEN @ + 1 ELSE @,
                  !.pc = CASE outcome = "ok" -> "returned"
                           [] outcome = "badBody" -> "rejected"
                           [] OTHER -> IF request.retryCount < maxRetries
                                       THEN "called" ELSE "rejected"]
    /\ RequestUnchanged

NextRequest == SendRequest \/ RequestCompletes

\* every request completes, and the delay before a retry ends
SpecRequest == InitRequest /\ [][NextRequest]_vars /\ WF_vars(NextRequest)

\* C27: one top-level call of fetchGitLab or fetchAzureDevOps sends at most
\* maxRetries + 1 = 4 requests; every request that fails, a 401 and a response
\* with Retry-After among them, takes one of the retries, or ends the call with
\* a rejection when none is left; and the call returns or rejects in the end.
C27_AtMostFourRequests ==
    /\ [](request.requests <= maxRetries + 1 /\ maxRetries + 1 = 4)
    /\ [][(request.pc = "awaiting" /\ Len(request'.responses) > Len(request.responses)
             /\ request'.responses[Len(request'.responses)] \in Failures)
            => IF request.retryCount < maxRetries
               THEN request'.retryCount = request.retryCount + 1 /\ request'.pc = "called"
               ELSE request'.pc = "rejected"]_vars
    /\ [](request.requests = request.retryCount + (IF request.pc = "called" THEN 0 ELSE 1))
    /\ <>(request.pc \in {"returned", "rejected"})

\* The call has sent four requests, a 401 and a rate-limit response among the
\* failures, and has rejected.
C27_Witness ==
    /\ request.pc = "rejected"
    /\ request.requests = 4
    /\ \E i, j \in 1..4 : request.responses[i] = "401" /\ request.responses[j] = "retryAfter"


\* C28: an iteration of the fetch loop in which getCommits or storeCommits
\* throws writes no commits.json and ends no more than that iteration: the loop
\* goes on to the next included repository, and after the last iteration
\* evaluateContributors is called for the platform with every included repository.
C28_ErrorCaughtPerRepository ==
    /\ [][(FetchStep /\ errors' # errors)
            => /\ errors' = errors \cup {NextRepo}
               /\ fsCommits' = fsCommits
               /\ IF fetchIdx' < Len(includedRepos)
                  THEN pc' = "p2_fetch"
                  ELSE pc' = "p2_eval" /\ ev'.repos = includedRepos
                                       /\ ev'.ciSystem = systemTag(cur.name)]_vars
    /\ []((pc = "p2_eval" /\ mode = "fetch") => fetchIdx = Len(includedRepos))

\* The iteration for o/r1 was caught, the one for o/r2 after it has requested
\* and stored the commits, and the platform is evaluated.
C28_Witness ==
    /\ pc = "p2_eval"
    /\ mode = "fetch"
    /\ includedRepos = <<"o/r1", "o/r2">>
    /\ errors = {"o/r1"}
    /\ ~fsCommits[systemDir(cur.name)]["o/r1"].exists
    /\ fsCommits[systemDir(cur.name)]["o/r2"].exists
    /\ [op |-> "getCommits", system |-> cur.name, repo |-> "o/r2"] \in apiCalls
    /\ ev.repos = includedRepos


\* C29: the rule list of the platform of the most recent setConfig call holds
\* only patterns of that call, its pattern string and the lines of its pattern
\* file, whatever loads of earlier calls have completed since.
C29_RulesOfMostRecentSetConfigOnly ==
    (pc = "caller" /\ cur.config.ciSystem # "undefined")
        => \A i \in 1..Len(regexPatterns[tagToLowerCase(cur.config.ciSystem)].list) :
              regexPatterns[tagToLowerCase(cur.config.ciSystem)].list[i]
                  \in validPatterns(cur.config)


\* The entry of a platform-level list is the entry with its key in the list of
\* the first repository, in the order of processing, that has the key.
FromFirstRepository(c, lists) ==
    LET with == {r \in 1..Len(lists) : HasKey(lists[r], c)}
    IN  /\ with # {}
        /\ LET first == CHOOSE r \in with : \A q \in with : r <= q
           IN  \E k \in 1..Len(lists[first]) : lists[first][k] = c

\* C30: a platform-level contributor of evaluateContributors carries the
\* commits value of its identity in the first repository, in processing order,
\* that has the identity, not the sum over the repositories; the identities of
\* the platform-level list are those of the repositories' lists in any order.
C30_CommitsOfFirstRepository ==
    ev.pc = "returned" =>
        /\ \A i \in 1..Len(ev.contributors) :
              FromFirstRepository(ev.contributors[i],
                  [r \in 1..Len(ev.repoContributors) |-> ev.repoContributors[r].contributors])
        /\ \A i \in 1..Len(ev.removedContributors) :
              FromFirstRepository(ev.removedContributors[i],
                  [r \in 1..Len(ev.repoContributors) |->
                      ev.repoContributors[r].removedContributors])
        /\ {keyOf(ev.contributors[i]) : i \in 1..Len(ev.contributors)} = IncludedKeys
        /\ {keyOf(ev.removedContributors[i]) : i \in 1..Len(ev.removedContributors)}
              = RemovedKeys

\* o/r2 was processed before o/r1: b, with one commit in o/r2 and two in o/r1,
\* is listed for the platform with one commit.
C30_Witness ==
    /\ ev.pc = "returned"
    /\ ev.repos = <<"o/r2", "o/r1">>
    /\ \E i \in 1..Len(ev.contributors) :
          /\ ev.contributors[i].name = <<"b">>
          /\ ev.contributors[i].commits = 1
          /\ \E k \in 1..Len(ev.repoContributors[2].contributors) :
                /\ keyOf(ev.repoContributors[2].contributors[k]) = keyOf(ev.contributors[i])
                /\ ev.repoContributors[2].contributors[k].commits = 2

====
